---- MODULE Spec2Model ----
(***************************************************************************)
(* NPC Spawn Timer plugin (class NPCSpawnTimer): the polling death         *)
(* detector, the respawn timer registry and the countdown/alert engine.    *)
(* Tree Cutter Bot plugin (class TreeCutterBot): the cutting/banking tick  *)
(* and the nearest-entity search.                                          *)
(*                                                                         *)
(* Strings are tuples of one-character strings, so that toLowerCase and    *)
(* includes are computed character by character.  Times are milliseconds   *)
(* as returned by Date.now(); only differences of clock values matter.     *)
(***************************************************************************)
EXTENDS Integers, Sequences, FiniteSets, TLC

VARIABLES
    host,             \* which of Worlds the plugin runs in (never changes)
    enabled,          \* this.settings.enable.value
    timerContainer,   \* this.timerContainer (and this.timerContent) is non-null
    entityManager,    \* this.entityManager is set (npcHealthMap exists)
    pendingRetries,   \* number of setTimeout(() => this.setupNPCTracking(), 1000) callbacks not yet run
    autoTrackEnabled, \* this.autoTrackEnabled
    trackBosses,      \* this.trackBosses
    npcHealthMap,     \* this.npcHealthMap: Map in insertion order, a sequence of HealthRecords
    trackedNPCs,      \* this.trackedNPCs: Map in insertion order, a sequence of Timers
    now,              \* the value Date.now() returned to the last handler
    log,              \* what the last handler did: Timers created, notifications shown, Timers removed
    outcome,          \* the last handler and how it ended: "tick", "skipped" and "TypeError" are
                      \* GameLoop_update run to its end, not run, and aborted by an exception
    obs,              \* per id, what the ticks since setup saw of it (history, see ObsOf)
    registry,         \* whether the last tick could read _npcs (history): "up", "down", "unread"
    snapshot,         \* the ids the last tick enumerated in _npcs (history)
    cssInjected,      \* this.cssInjected
    emitted,          \* per id, the notifications shown for its current Timer
    rendered,         \* the ids of the Timer entries of this.timerContent, in display order
    botEnabled,       \* TreeCutterBot: this.settings.enable.value
    state,            \* TreeCutterBot: this.state
    lastActionAt,     \* TreeCutterBot: this.lastActionAt
    pendingBankOpenAt, \* TreeCutterBot: this.pendingBankOpenAt
    logNameIncludes,  \* TreeCutterBot: this.settings.logNameIncludes.value
    clicks,           \* TreeCutterBot: the click actions of its last handler
    searchIn,         \* arguments of the last direct call of findNearestWorldEntityByName
    searchOut,        \* its result: the place of the entity in WorldEntities, 0 for null
    filterIn,         \* arguments of the last direct call of shouldTrackNPC
    filterOut         \* its result

vars == << host, enabled, timerContainer, entityManager, pendingRetries, autoTrackEnabled,
           trackBosses, npcHealthMap, trackedNPCs, now, log, outcome, obs, registry, snapshot,
           cssInjected, emitted, rendered, filterIn, filterOut, botEnabled, state, lastActionAt,
           pendingBankOpenAt, logNameIncludes, clicks, searchIn, searchOut >>

\* The Tree Cutter Bot's variables, which no NPC Spawn Timer handler touches.
botVars == << botEnabled, state, lastActionAt, pendingBankOpenAt, logNameIncludes, clicks,
              searchIn, searchOut >>

\* The NPC Spawn Timer's variables, which no Tree Cutter Bot handler touches.
timerVars == << host, enabled, timerContainer, entityManager, pendingRetries, autoTrackEnabled,
                trackBosses, npcHealthMap, trackedNPCs, log, obs, registry, snapshot,
                cssInjected, emitted, rendered, filterIn, filterOut >>

(***************************************************************************)
(* Bounds of the model.                                                    *)
(***************************************************************************)
MaxNow == 135000
MaxPending == 2
MaxEmitted == 2
MaxCountdown == 106000
MaxBotNow == 1300
MaxEntities == 3

NPCIds == {1, 2}

(***************************************************************************)
(* Strings.                                                                *)
(***************************************************************************)
UpperCaseLetters == <<"A","B","C","D","E","F","G","H","I","J","K","L","M","N","O","P","Q","R","S","T","U","V","W","X","Y","Z">>
LowerCaseLetters == <<"a","b","c","d","e","f","g","h","i","j","k","l","m","n","o","p","q","r","s","t","u","v","w","x","y","z">>

\* The value undefined where a string is expected (a missing _name).
Undefined == "<undefined>"

\* The characters of each string that is lower-cased or searched.
Spelling ==
    { <<"Bandit", <<"B","a","n","d","i","t">>>>,
      <<"Blood Mage", <<"B","l","o","o","d"," ","M","a","g","e">>>>,
      <<"Cave Chicken", <<"C","a","v","e"," ","C","h","i","c","k","e","n">>>>,
      <<"Dragon Rat", <<"D","r","a","g","o","n"," ","R","a","t">>>>,
      <<"Fire Dragon", <<"F","i","r","e"," ","D","r","a","g","o","n">>>>,
      <<"Frost Giant", <<"F","r","o","s","t"," ","G","i","a","n","t">>>>,
      <<"Goblin", <<"G","o","b","l","i","n">>>>,
      <<"Human Knight", <<"H","u","m","a","n"," ","K","n","i","g","h","t">>>>,
      <<"Wizard", <<"W","i","z","a","r","d">>>>,
      <<"bear cub", <<"b","e","a","r"," ","c","u","b">>>>,
      <<"boss", <<"b","o","s","s">>>>,
      <<"cave chicken", <<"c","a","v","e"," ","c","h","i","c","k","e","n">>>>,
      <<"chicken", <<"c","h","i","c","k","e","n">>>>,
      <<"corrupt", <<"c","o","r","r","u","p","t">>>>,
      <<"cow", <<"c","o","w">>>>,
      <<"damogui", <<"d","a","m","o","g","u","i">>>>,
      <<"dragon", <<"d","r","a","g","o","n">>>>,
      <<"elder", <<"e","l","d","e","r">>>>,
      <<"farmer", <<"f","a","r","m","e","r">>>>,
      <<"fire dragon", <<"f","i","r","e"," ","d","r","a","g","o","n">>>>,
      <<"fisherman", <<"f","i","s","h","e","r","m","a","n">>>>,
      <<"frost", <<"f","r","o","s","t">>>>,
      <<"giant", <<"g","i","a","n","t">>>>,
      <<"hell", <<"h","e","l","l">>>>,
      <<"isradore", <<"i","s","r","a","d","o","r","e">>>>,
      <<"king", <<"k","i","n","g">>>>,
      <<"knight", <<"k","n","i","g","h","t">>>>,
      <<"lumberjack", <<"l","u","m","b","e","r","j","a","c","k">>>>,
      <<"man", <<"m","a","n">>>>,
      <<"minotaur", <<"m","i","n","o","t","a","u","r">>>>,
      <<"nisse", <<"n","i","s","s","e">>>>,
      <<"old man", <<"o","l","d"," ","m","a","n">>>>,
      <<"rat", <<"r","a","t">>>>,
      <<"rooster", <<"r","o","o","s","t","e","r">>>>,
      <<"sewer rat", <<"s","e","w","e","r"," ","r","a","t">>>>,
      <<"squirrel", <<"s","q","u","i","r","r","e","l">>>>,
      <<"warrior", <<"w","a","r","r","i","o","r">>>> }

Chars(s) == (CHOOSE p \in Spelling : p[1] = s)[2]

toLowerCaseChar(c) ==
    IF \E i \in 1..Len(UpperCaseLetters) : UpperCaseLetters[i] = c
    THEN LowerCaseLetters[CHOOSE i \in 1..Len(UpperCaseLetters) : UpperCaseLetters[i] = c]
    ELSE c

\* String.prototype.toLowerCase, on the characters of s.
toLowerCase(s) == [i \in 1..Len(s) |-> toLowerCaseChar(s[i])]

\* String.prototype.includes, on characters.
includes(s, sub) ==
    \E i \in 0..(Len(s) - Len(sub)) :
        \A j \in 1..Len(sub) : s[i + j] = sub[j]

(***************************************************************************)
(* The constructor's configuration.                                        *)
(***************************************************************************)
defaultRespawnTime == 120

customRespawnTimes ==
    { <<"King Goblin Jockey", 900>>,
      <<"Damogui", 900>>,
      <<"Isradore's Dragon", 900>>,
      <<"Fire Dragon", 600>>,
      <<"Water Dragon", 600>>,
      <<"Plains Dragon", 600>>,
      <<"Elder Knight", 420>>,
      <<"Hell Giant", 420>>,
      <<"Corrupt Minotaur", 360>>,
      <<"Cave Bear", 360>>,
      <<"Frost Giant", 300>>,
      <<"Hell Warrior", 300>>,
      <<"Minotaur", 300>>,
      <<"Forest Giant", 240>>,
      <<"Giant", 240>>,
      <<"Knight", 240>>,
      <<"Forest Warrior", 180>>,
      <<"Frost Warrior", 180>>,
      <<"Dragon Hatchling", 150>>,
      <<"Brute", 120>>,
      <<"Dark Monk", 120>>,
      <<"Skeletal Mage", 120>>,
      <<"Giant Skeleton", 180>>,
      <<"Suit Of Armour", 60>>,
      <<"Blood Mage", 60>>,
      <<"Charred Skeleton", 60>> }

alertThreshold == 15

minNPCLevel == 30

bossKeywords ==
    << "dragon", "giant", "knight", "elder", "king", "boss", "warrior", "minotaur",
       "isradore", "damogui", "hell", "frost", "corrupt" >>

blacklistedNames ==
    << "rat", "chicken", "cow", "squirrel", "rooster", "farmer", "nisse", "man",
       "old man", "fisherman", "lumberjack", "sewer rat", "cave chicken", "bear cub" >>

\* The sweep of updateTimers keeps a spawned Timer this long (milliseconds).
CleanupDelay == 30000

\* Mutant: the table is never consulted.
RespawnTimeFor_DefaultOnly(npcName) == defaultRespawnTime

\* this.customRespawnTimes[npcName] || this.defaultRespawnTime
RespawnTimeFor(npcName) ==
    IF \E p \in customRespawnTimes : p[1] = npcName /\ p[2] # 0
    THEN (CHOOSE p \in customRespawnTimes : p[1] = npcName /\ p[2] # 0)[2]
    ELSE defaultRespawnTime


(***************************************************************************)
(* JavaScript Map: entries in insertion order, each carrying its key (id). *)
(***************************************************************************)
MapKeys(m) == { m[i].id : i \in 1..Len(m) }

MapHas(m, k) == k \in MapKeys(m)

MapGet(m, k) == m[CHOOSE i \in 1..Len(m) : m[i].id = k]

\* Map.set: an existing key keeps its place, a new key goes last.
MapSet(m, v) ==
    IF MapHas(m, v.id)
    THEN [i \in 1..Len(m) |-> IF m[i].id = v.id THEN v ELSE m[i]]
    ELSE Append(m, v)

MapDelete(m, k) == SelectSeq(m, LAMBDA e : e.id # k)

(***************************************************************************)
(* Eligibility filter.                                                     *)
(***************************************************************************)
\* for (const x of list) if (nameLower.includes(x.toLowerCase())) ...
AnyIncluded(s, list) == \E i \in 1..Len(list) : includes(s, toLowerCase(Chars(list[i])))

\* Mutant: the boss keywords are tried before the blacklist.
shouldTrackNPC_BossFirst(npc, npcName) ==
    IF ~autoTrackEnabled THEN "false"
    ELSE IF npcName = Undefined THEN "TypeError"
    ELSE LET nameLower == toLowerCase(Chars(npcName))
         IN  IF trackBosses /\ AnyIncluded(nameLower, bossKeywords) THEN "true"
             ELSE IF AnyIncluded(nameLower, blacklistedNames) THEN "false"
             ELSE IF npc.combat >= minNPCLevel THEN "true"
             ELSE "false"

\* shouldTrackNPC(npc, npcName): "true", "false", or "TypeError" when
\* npcName.toLowerCase() is called on undefined.
shouldTrackNPC(npc, npcName) ==
    IF ~autoTrackEnabled THEN "false"
    ELSE IF npcName = Undefined THEN "TypeError"
    ELSE LET nameLower == toLowerCase(Chars(npcName))
             combatLevel == npc.combat   \* npc._combat?._level || 0
         IN  IF AnyIncluded(nameLower, blacklistedNames) THEN "false"
             ELSE IF trackBosses /\ AnyIncluded(nameLower, bossKeywords) THEN "true"
             ELSE IF combatLevel >= minNPCLevel THEN "true"
             ELSE "false"

(***************************************************************************)
(* Death detector.                                                         *)
(***************************************************************************)
\* Math.round of a coordinate given in halves (h stands for h/2).
MathRound(h) == (h + 1) \div 2

\* a || b || 0 on numbers, 0 standing for every falsy value (0 or missing).
OrElse(a, b) == IF a # 0 THEN a ELSE b

NoPosition == [defined |-> FALSE, x |-> 0, y |-> 0]
NoRef == [defined |-> FALSE, combat |-> 0]

\* onNPCDeath: caches position, map level and the NPC on the HealthRecord.
onNPCDeath(map, npcId, npc) ==
    IF ~npc.hasDef THEN map
    ELSE LET position == [defined |-> TRUE,
                          x |-> MathRound(OrElse(npc.currentGamePosition.x, npc.lastGamePosition.x)),
                          y |-> MathRound(OrElse(npc.currentGamePosition.z, npc.lastGamePosition.z))]
             level == OrElse(npc.currentMapLevel, 1)
         IN  IF MapHas(map, npcId)
             THEN MapSet(map, [MapGet(map, npcId) EXCEPT
                                  !.position = position,
                                  !.level = level,
                                  !.npcRef = [defined |-> TRUE, combat |-> npc.combat]])
             ELSE map

\* Mutant: the current level alone, hitpoints._currentLevel || 0.
CurrentHP_CurrentOnly(hitpoints) == OrElse(hitpoints.currentLevel, 0)

\* const currentHP = hitpoints._currentLevel || hitpoints._level || 0
CurrentHP(hitpoints) == OrElse(hitpoints.currentLevel, OrElse(hitpoints.level, 0))

\* const maxHP = hitpoints._level || 100
MaxHP(hitpoints) == OrElse(hitpoints.level, 100)

\* Mutant: a record with health 0 whose entity is alive again is replaced by a
\* fresh one.
ObserveNPC_FreshOnRevival(map, npcId, npc) ==
    IF ~npc.hitpoints.present THEN map
    ELSE LET currentHP == CurrentHP(npc.hitpoints)
             fresh == [id |-> npcId, hp |-> currentHP, maxHP |-> MaxHP(npc.hitpoints),
                       name |-> npc.name, position |-> NoPosition, level |-> 0,
                       npcRef |-> NoRef]
         IN  IF ~MapHas(map, npcId) THEN MapSet(map, fresh)
             ELSE LET stored == MapGet(map, npcId)
                      seen == IF stored.hp > 0 /\ currentHP = 0
                              THEN onNPCDeath(map, npcId, npc)
                              ELSE map
                  IN  IF stored.hp = 0 /\ currentHP > 0
                      THEN Append(MapDelete(map, npcId), fresh)
                      ELSE MapSet(seen, [MapGet(seen, npcId) EXCEPT !.hp = currentHP])

\* One iteration of "for (const [npcId, npc] of npcs)" after the !npc || !npc._def test.
ObserveNPC(map, npcId, npc) ==
    IF ~npc.hitpoints.present THEN map
    ELSE LET currentHP == CurrentHP(npc.hitpoints)
         IN  IF ~MapHas(map, npcId)
             THEN MapSet(map, [id |-> npcId, hp |-> currentHP, maxHP |-> MaxHP(npc.hitpoints),
                               name |-> npc.name, position |-> NoPosition, level |-> 0,
                               npcRef |-> NoRef])
             ELSE LET stored == MapGet(map, npcId)
                      seen == IF stored.hp > 0 /\ currentHP = 0
                              THEN onNPCDeath(map, npcId, npc)
                              ELSE map
                  IN  MapSet(seen, [MapGet(seen, npcId) EXCEPT !.hp = currentHP])

\* An entry of the host's _npcs table is enumerated when it has an NPC with a _def.
Enumerated(e) == e.npc.present /\ e.npc.hasDef

\* const currentNPCIds = new Set(), filled by the first loop.
CurrentNPCIds(npcs) == { npcs[i].id : i \in { j \in 1..Len(npcs) : Enumerated(npcs[j]) } }

\* Mutant: the first loop drops the records of ids it did not enumerate.
RECURSIVE ObserveAll_PrunesAbsent(_, _, _)
ObserveAll_PrunesAbsent(map, npcs, i) ==
    IF i > Len(npcs) THEN SelectSeq(map, LAMBDA r : r.id \in CurrentNPCIds(npcs))
    ELSE ObserveAll_PrunesAbsent(IF Enumerated(npcs[i])
                                 THEN ObserveNPC(map, npcs[i].id, npcs[i].npc)
                                 ELSE map,
                                 npcs, i + 1)

RECURSIVE ObserveAll(_, _, _)
ObserveAll(map, npcs, i) ==
    IF i > Len(npcs) THEN map
    ELSE ObserveAll(IF Enumerated(npcs[i]) THEN ObserveNPC(map, npcs[i].id, npcs[i].npc) ELSE map,
                    npcs, i + 1)

\* trackNPCDeath: registers a Timer (Map.set) with the clock value t.
trackNPCDeath(tracked, npcId, npcName, position, level, t) ==
    LET respawnTime == RespawnTimeFor(npcName)
    IN  MapSet(tracked, [id |-> npcId, name |-> npcName, position |-> position, level |-> level,
                         spawnTimestamp |-> t + respawnTime * 1000, respawnTime |-> respawnTime,
                         alerted |-> FALSE, spawned |-> FALSE])

\* Mutant: any record whose id is not enumerated counts as despawned.
DespawnConfirmed_AnyHealth(healthData, currentNPCIds) ==
    healthData.id \notin currentNPCIds

\* if (!currentNPCIds.has(npcId) && healthData.hp === 0)
DespawnConfirmed(healthData, currentNPCIds) ==
    healthData.id \notin currentNPCIds /\ healthData.hp = 0

\* if (healthData.npcRef && ...): the filter is consulted only with a cached NPC.
FilterVerdict(healthData) ==
    IF healthData.npcRef.defined THEN shouldTrackNPC(healthData.npcRef, healthData.name) ELSE "true"

\* Mutant: the record outlives its despawn confirmation.
DeleteRecord_Kept(map, npcId) == map

\* this.npcHealthMap.delete(npcId) at the end of a despawn confirmation.
DeleteRecord(map, npcId) == MapDelete(map, npcId)

\* Mutant: a Timer is registered whether or not the id has one.
AlreadyTracked_Never(tracked, npcId) == FALSE

\* if (!this.trackedNPCs.has(npcId)) { ... trackNPCDeath ... }
AlreadyTracked(tracked, npcId) == MapHas(tracked, npcId)

\* One iteration of "for (const [npcId, healthData] of this.npcHealthMap)".
\* st = [health, tracked, log, threw]; after a throw nothing more runs.  The
\* log says how each despawn confirmation ended: "tracked" (the id has a Timer),
\* "threw", "rejected" (by the filter) or "created".
DespawnStep(st, healthData, currentNPCIds, t) ==
    IF st.threw \/ ~DespawnConfirmed(healthData, currentNPCIds) THEN st
    ELSE IF AlreadyTracked(st.tracked, healthData.id)
         THEN [st EXCEPT !.health = DeleteRecord(st.health, healthData.id),
                         !.log = Append(st.log, [type |-> "tracked", id |-> healthData.id])]
    ELSE LET verdict == FilterVerdict(healthData)
         IN  IF verdict = "TypeError"
             THEN [st EXCEPT !.threw = TRUE,
                             !.log = Append(st.log, [type |-> "threw", id |-> healthData.id])]
             ELSE IF verdict = "false"
                  THEN [st EXCEPT !.health = MapDelete(st.health, healthData.id),
                                  !.log = Append(st.log, [type |-> "rejected", id |-> healthData.id])]
             ELSE LET position == IF healthData.position.defined
                                  THEN [x |-> healthData.position.x, y |-> healthData.position.y]
                                  ELSE [x |-> 0, y |-> 0]
                      level == OrElse(healthData.level, 1)
                  IN  [st EXCEPT
                         !.tracked = trackNPCDeath(st.tracked, healthData.id, healthData.name,
                                                   position, level, t),
                         !.health = DeleteRecord(st.health, healthData.id),
                         !.log = Append(st.log, [type |-> "created", id |-> healthData.id,
                                                 hp |-> healthData.hp,
                                                 absent |-> healthData.id \notin currentNPCIds,
                                                 filtered |-> healthData.npcRef.defined])]

RECURSIVE DespawnLoop(_, _, _, _, _)
DespawnLoop(st, records, i, currentNPCIds, t) ==
    IF i > Len(records) THEN st
    ELSE DespawnLoop(DespawnStep(st, records[i], currentNPCIds, t), records, i + 1,
                     currentNPCIds, t)

\* The second loop, over the records as the first loop left them.
ConfirmDespawns(st, observed, currentNPCIds, t) ==
    DespawnLoop([st EXCEPT !.health = observed], observed, 1, currentNPCIds, t)

\* Mutant: a registry that cannot be read is taken for an empty table.
monitorNPCHealth_EmptySnapshot(st, available, npcs, t) ==
    IF ~entityManager \/ ~available THEN ConfirmDespawns(st, st.health, {}, t)
    ELSE ConfirmDespawns(st, ObserveAll(st.health, npcs, 1), CurrentNPCIds(npcs), t)

\* monitorNPCHealth with the host table npcs (available or not) at clock value t.
monitorNPCHealth(st, available, npcs, t) ==
    IF ~entityManager \/ ~available THEN st
    ELSE ConfirmDespawns(st, ObserveAll(st.health, npcs, 1), CurrentNPCIds(npcs), t)

(***************************************************************************)
(* Countdown/alert engine.                                                 *)
(***************************************************************************)
Max(a, b) == IF a >= b THEN a ELSE b

\* Mutant: the time since the spawn instead of the time until it.
TimeRemaining_Elapsed(timer, t) == Max(0, (t - timer.spawnTimestamp) \div 1000)

\* Math.max(0, Math.floor((timer.spawnTimestamp - now) / 1000))
TimeRemaining(timer, t) == Max(0, (timer.spawnTimestamp - t) \div 1000)

\* Mutant: the spawned flag is not consulted.
SpawnedFires_Repeats(timer, t) == TimeRemaining(timer, t) = 0

\* Mutant: the spawn is announced with one second left.
SpawnedFires_SecondEarly(timer, t) == TimeRemaining(timer, t) <= 1 /\ ~timer.spawned

\* Mutant: the clock must have passed spawnTimestamp.
SpawnedFires_Late(timer, t) == timer.spawnTimestamp < t /\ ~timer.spawned

\* if (timeRemaining === 0) { if (!timer.spawned) ... }
SpawnedFires(timer, t) == TimeRemaining(timer, t) = 0 /\ ~timer.spawned

\* Mutant: the threshold itself does not alert.
AlertFires_Strict(timer, t) ==
    TimeRemaining(timer, t) # 0 /\ TimeRemaining(timer, t) < alertThreshold /\ ~timer.alerted

\* else if (timeRemaining <= this.alertThreshold && !timer.alerted)
AlertFires(timer, t) ==
    TimeRemaining(timer, t) # 0 /\ TimeRemaining(timer, t) <= alertThreshold /\ ~timer.alerted

\* Mutant: the alert is shown without marking the Timer alerted.
UpdateFlags_AlertUnmarked(timer, t) ==
    IF SpawnedFires(timer, t) THEN [timer EXCEPT !.spawned = TRUE]
    ELSE timer

\* Mutant: the spawn clears the alert.
UpdateFlags_SpawnClearsAlert(timer, t) ==
    IF SpawnedFires(timer, t) THEN [timer EXCEPT !.spawned = TRUE, !.alerted = FALSE]
    ELSE IF AlertFires(timer, t) THEN [timer EXCEPT !.alerted = TRUE]
    ELSE timer

\* The first loop of updateTimers on one Timer.
UpdateFlags(timer, t) ==
    IF SpawnedFires(timer, t) THEN [timer EXCEPT !.spawned = TRUE]
    ELSE IF AlertFires(timer, t) THEN [timer EXCEPT !.alerted = TRUE]
    ELSE timer

\* showNotification calls of the first loop, in Map order.
RECURSIVE Notifications(_, _, _)
Notifications(tracked, i, t) ==
    IF i > Len(tracked) THEN << >>
    ELSE LET timer == tracked[i]
             here == IF SpawnedFires(timer, t)
                     THEN << [type |-> "spawned", id |-> timer.id, name |-> timer.name] >>
                     ELSE IF AlertFires(timer, t)
                          THEN << [type |-> "soon", id |-> timer.id, name |-> timer.name,
                                   remaining |-> TimeRemaining(timer, t)] >>
                          ELSE << >>
         IN  here \o Notifications(tracked, i + 1, t)

\* Mutant: the sweep takes a Timer at exactly 30000 ms.
Expired_Inclusive(timer, t) == timer.spawned /\ (t - timer.spawnTimestamp) >= CleanupDelay

\* if (timer.spawned && (now - timer.spawnTimestamp) > 30000)
Expired(timer, t) == timer.spawned /\ (t - timer.spawnTimestamp) > CleanupDelay

RECURSIVE Removals(_, _, _)
Removals(tracked, i, t) ==
    IF i > Len(tracked) THEN << >>
    ELSE (IF Expired(tracked[i], t)
          THEN << [type |-> "removed", id |-> tracked[i].id,
                   spawnTimestamp |-> tracked[i].spawnTimestamp,
                   alerted |-> tracked[i].alerted, spawned |-> tracked[i].spawned] >>
          ELSE << >>)
         \o Removals(tracked, i + 1, t)

\* updateTimers at clock value t.
updateTimers(st, t) ==
    LET flagged == [i \in 1..Len(st.tracked) |-> UpdateFlags(st.tracked[i], t)]
    IN  [st EXCEPT
           !.tracked = SelectSeq(flagged, LAMBDA timer : ~Expired(timer, t)),
           !.log = st.log \o Notifications(st.tracked, 1, t) \o Removals(flagged, 1, t)]

(***************************************************************************)
(* Notifications shown for the current Timer of each id (history).         *)
(***************************************************************************)
NoneEmitted == [soon |-> 0, spawned |-> 0]

Count(events, type, id) ==
    Cardinality({ i \in 1..Len(events) : events[i].type = type /\ events[i].id = id })

Min(a, b) == IF a <= b THEN a ELSE b

EmittedAfter(old, tracked, events) ==
    [id \in NPCIds |->
        IF ~MapHas(tracked, id) THEN NoneEmitted
        ELSE LET base == IF Count(events, "created", id) > 0 THEN NoneEmitted ELSE old[id]
             IN  [soon |-> Min(MaxEmitted, base.soon + Count(events, "soon", id)),
                  spawned |-> Min(MaxEmitted, base.spawned + Count(events, "spawned", id))]]

(***************************************************************************)
(* History kept for the properties, per specification (watch says which). *)
(* obs: what the ticks since the HealthRecord map was set up saw of an id: *)
(* "alive" after a positive current level; "dead" once a current level of  *)
(* 0 follows an "alive"; "gone" on the tick right after "dead" when the id *)
(* is not enumerated; "none" otherwise.                                    *)
(* registry: whether the last tick that ran monitorNPCHealth found         *)
(* this.entityManager and its _npcs ("up") or not ("down").                *)
(***************************************************************************)
NoObs == [id \in NPCIds |-> "none"]

ObsOf(old, npcs, id) ==
    IF \E i \in 1..Len(npcs) : npcs[i].id = id /\ Enumerated(npcs[i])
    THEN LET npc == (CHOOSE e \in { npcs[i] : i \in 1..Len(npcs) } : e.id = id).npc
         IN  IF ~npc.hitpoints.present THEN old
             ELSE IF npc.hitpoints.currentLevel > 0 THEN "alive"
             ELSE IF old \in {"alive", "dead"} THEN "dead"
             ELSE "none"
    ELSE IF old = "dead" THEN "gone"
         ELSE IF old = "alive" THEN "alive"
         ELSE "none"

Watch(ids, reg) == [ids |-> ids, registry |-> reg, snapshot |-> FALSE]

\* As Watch, and the ids each tick enumerates are recorded too.
WatchSnapshot(ids, reg) == [ids |-> ids, registry |-> reg, snapshot |-> TRUE]

History(watch, available, npcs) ==
    LET ran == enabled /\ timerContainer
        read == entityManager /\ available
    IN  /\ obs' = [id \in NPCIds |->
                     IF id \in watch.ids /\ ran /\ read THEN ObsOf(obs[id], npcs, id)
                     ELSE IF obs[id] = "gone" THEN "none" ELSE obs[id]]
        /\ registry' = IF ~watch.registry \/ ~ran THEN "unread"
                       ELSE IF read THEN "up" ELSE "down"
        /\ snapshot' = IF watch.snapshot /\ ran /\ read THEN CurrentNPCIds(npcs) ELSE {}

(***************************************************************************)
(* The timer list on screen.                                               *)
(***************************************************************************)
\* (a, b) => a.spawnTimestamp - b.spawnTimestamp
compareTimers(a, b) == a.spawnTimestamp - b.spawnTimestamp

\* Mutant: a Timer goes in front of the Timers it compares equal to.
InsertSorted_BeforeEquals(sorted, timer) ==
    SelectSeq(sorted, LAMBDA e : compareTimers(e, timer) < 0)
    \o << timer >>
    \o SelectSeq(sorted, LAMBDA e : compareTimers(e, timer) >= 0)

\* Array.prototype.sort is stable: a Timer goes behind the Timers already
\* placed that do not compare greater.
InsertSorted(sorted, timer) ==
    SelectSeq(sorted, LAMBDA e : compareTimers(e, timer) <= 0)
    \o << timer >>
    \o SelectSeq(sorted, LAMBDA e : compareTimers(e, timer) > 0)

RECURSIVE SortFrom(_, _, _)
SortFrom(sorted, timers, i) ==
    IF i > Len(timers) THEN sorted
    ELSE SortFrom(InsertSorted(sorted, timers[i]), timers, i + 1)

\* Array.from(this.trackedNPCs.values()).sort(...)
sortedTimers(tracked) == SortFrom(<< >>, tracked, 1)

\* updateTimerDisplay: the entries of timerContent (content says whether it
\* exists; old is what it shows) for the registry tracked.  An empty registry
\* shows the "No NPCs tracked" line and no entry.
updateTimerDisplay(content, tracked, old) ==
    IF ~content THEN old
    ELSE [i \in 1..Len(tracked) |-> sortedTimers(tracked)[i].id]

\* trackNPCDeath always redraws; updateTimers redraws when needsUpdate is set.
Redrawn(events) ==
    \E i \in 1..Len(events) : events[i].type \in {"created", "soon", "spawned", "removed"}

(***************************************************************************)
(* Handlers.                                                               *)
(***************************************************************************)
config == << host, autoTrackEnabled, trackBosses, filterIn, filterOut >>

\* this.updateTimers() runs unless this.monitorNPCHealth() threw.
AfterMonitor(st1, t) == IF st1.threw THEN st1 ELSE updateTimers(st1, t)

\* The body of GameLoop_update when the plugin is enabled and has its container.
TickResult(available, npcs, t) ==
    AfterMonitor(monitorNPCHealth([health |-> npcHealthMap, tracked |-> trackedNPCs,
                                   log |-> << >>, threw |-> FALSE],
                                  available, npcs, t), t)

\* The body of GameLoop_update run once more, on the maps st1 that a run left.
TickAgain(st1, available, npcs, t) ==
    AfterMonitor(monitorNPCHealth([health |-> st1.health, tracked |-> st1.tracked,
                                   log |-> << >>, threw |-> FALSE],
                                  available, npcs, t), t)

\* Mutant: the tick runs whatever settings.enable.value is.
GameLoop_update_NoEnableCheck(available, npcs, t) ==
    /\ now' = t
    /\ IF timerContainer
       THEN \E st2 \in { TickResult(available, npcs, t) } :
                /\ npcHealthMap' = st2.health
                /\ trackedNPCs' = st2.tracked
                /\ log' = st2.log
                /\ outcome' = IF st2.threw THEN "TypeError" ELSE "tick"
                /\ emitted' = EmittedAfter(emitted, st2.tracked, st2.log)
                /\ rendered' = IF Redrawn(st2.log)
                               THEN updateTimerDisplay(timerContainer, st2.tracked, rendered)
                               ELSE rendered
       ELSE /\ UNCHANGED << npcHealthMap, trackedNPCs, emitted, rendered >>
            /\ log' = << >>
            /\ outcome' = "skipped"
    /\ UNCHANGED << enabled, timerContainer, entityManager, pendingRetries, cssInjected, config >>
    /\ UNCHANGED botVars

\* Mutant: the tick runs without a timer container.
GameLoop_update_NoContainerCheck(available, npcs, t) ==
    /\ now' = t
    /\ IF enabled
       THEN \E st2 \in { TickResult(available, npcs, t) } :
                /\ npcHealthMap' = st2.health
                /\ trackedNPCs' = st2.tracked
                /\ log' = st2.log
                /\ outcome' = IF st2.threw THEN "TypeError" ELSE "tick"
                /\ emitted' = EmittedAfter(emitted, st2.tracked, st2.log)
                /\ rendered' = IF Redrawn(st2.log)
                               THEN updateTimerDisplay(timerContainer, st2.tracked, rendered)
                               ELSE rendered
       ELSE /\ UNCHANGED << npcHealthMap, trackedNPCs, emitted, rendered >>
            /\ log' = << >>
            /\ outcome' = "skipped"
    /\ UNCHANGED << enabled, timerContainer, entityManager, pendingRetries, cssInjected, config >>
    /\ UNCHANGED botVars

\* GameLoop_update: the host table is available or not, holds npcs, and Date.now() = t.
GameLoop_update(available, npcs, t) ==
    /\ now' = t
    /\ IF enabled /\ timerContainer
       THEN \E st2 \in { TickResult(available, npcs, t) } :
                /\ npcHealthMap' = st2.health
                /\ trackedNPCs' = st2.tracked
                /\ log' = st2.log
                /\ outcome' = IF st2.threw THEN "TypeError" ELSE "tick"
                /\ emitted' = EmittedAfter(emitted, st2.tracked, st2.log)
                /\ rendered' = IF Redrawn(st2.log)
                               THEN updateTimerDisplay(timerContainer, st2.tracked, rendered)
                               ELSE rendered
       ELSE /\ UNCHANGED << npcHealthMap, trackedNPCs, emitted, rendered >>
            /\ log' = << >>
            /\ outcome' = "skipped"
    /\ UNCHANGED << enabled, timerContainer, entityManager, pendingRetries, cssInjected, config >>
    /\ UNCHANGED botVars

\* setupNPCTracking: instance says whether EntityManager.Instance exists.
setupNPCTracking(instance) ==
    IF ~instance
    THEN /\ pendingRetries < MaxPending
         /\ pendingRetries' = pendingRetries + 1
         /\ UNCHANGED << entityManager, npcHealthMap, obs >>
    ELSE /\ entityManager' = TRUE
         /\ npcHealthMap' = << >>
         /\ obs' = NoObs
         /\ UNCHANGED pendingRetries

\* start(): injectStyles, createTimerUI (hsMask: #hs-screen-mask exists), setupNPCTracking.
start(hsMask, instance) ==
    /\ cssInjected' = TRUE
    /\ timerContainer' = (timerContainer \/ hsMask)
    /\ rendered' = IF ~timerContainer /\ hsMask
                   THEN updateTimerDisplay(TRUE, trackedNPCs, rendered)
                   ELSE rendered
    /\ setupNPCTracking(instance)
    /\ log' = << >>
    /\ outcome' = "start"
    /\ registry' = "unread"
    /\ snapshot' = {}
    /\ UNCHANGED << enabled, trackedNPCs, now, emitted, config >>
    /\ UNCHANGED botVars

\* The setTimeout callback of setupNPCTracking.
RetrySetup(instance) ==
    /\ pendingRetries > 0
    /\ IF ~instance
       THEN UNCHANGED << pendingRetries, entityManager, npcHealthMap, obs >>
       ELSE /\ pendingRetries' = pendingRetries - 1
            /\ entityManager' = TRUE
            /\ npcHealthMap' = << >>
            /\ obs' = NoObs
    /\ log' = << >>
    /\ outcome' = "retry"
    /\ registry' = "unread"
    /\ snapshot' = {}
    /\ UNCHANGED << enabled, timerContainer, cssInjected, trackedNPCs, now, emitted, rendered,
                    config >>
    /\ UNCHANGED botVars

\* stop(): cleanup().
stop ==
    /\ timerContainer' = FALSE
    /\ trackedNPCs' = << >>
    /\ npcHealthMap' = << >>
    /\ obs' = NoObs
    /\ emitted' = [id \in NPCIds |-> NoneEmitted]
    /\ rendered' = << >>
    /\ log' = << [type |-> "cleared", id |-> 0,
                   timers |-> Len(trackedNPCs), records |-> Len(npcHealthMap)] >>
    /\ outcome' = "stop"
    /\ registry' = "unread"
    /\ snapshot' = {}
    /\ UNCHANGED << enabled, entityManager, pendingRetries, cssInjected, now, config >>
    /\ UNCHANGED botVars

\* removeBtn.onclick of the entry rendered for Timer id.
removeBtn_onclick(id) ==
    /\ timerContainer
    /\ MapHas(trackedNPCs, id)
    /\ trackedNPCs' = MapDelete(trackedNPCs, id)
    /\ emitted' = [i \in DOMAIN emitted |-> IF i = id THEN NoneEmitted ELSE emitted[i]]
    /\ rendered' = updateTimerDisplay(timerContainer, MapDelete(trackedNPCs, id), rendered)
    /\ log' = << [type |-> "dismissed", id |-> id,
                   alerted |-> MapGet(trackedNPCs, id).alerted,
                   spawned |-> MapGet(trackedNPCs, id).spawned] >>
    /\ outcome' = "removeBtn"
    /\ registry' = "unread"
    /\ snapshot' = {}
    /\ UNCHANGED << enabled, timerContainer, entityManager, pendingRetries, cssInjected,
                    npcHealthMap, obs, now, config >>
    /\ UNCHANGED botVars

\* The key addTestNPC gives its Timer: `test_${Date.now()}`, told apart from
\* the numeric ids of _npcs.
TestId(t) == 1000000 + t

\* addTestNPC(name) at clock value t (respawnSeconds is computed and not used).
addTestNPC(name, t) ==
    /\ now' = t
    /\ trackedNPCs' = trackNPCDeath(trackedNPCs, TestId(t), name, [x |-> 100, y |-> 200], 1, t)
    /\ rendered' = updateTimerDisplay(timerContainer, trackedNPCs', rendered)
    /\ log' = << [type |-> "test", id |-> TestId(t)] >>
    /\ outcome' = "addTestNPC"
    /\ registry' = "unread"
    /\ snapshot' = {}
    /\ UNCHANGED << enabled, timerContainer, entityManager, pendingRetries, cssInjected,
                    npcHealthMap, obs, emitted, config >>
    /\ UNCHANGED botVars

\* The host's settings panel sets settings.enable.value.
SetEnable(b) ==
    /\ enabled # b
    /\ enabled' = b
    /\ log' = << >>
    /\ outcome' = "enable"
    /\ registry' = "unread"
    /\ snapshot' = {}
    /\ UNCHANGED << timerContainer, entityManager, pendingRetries, cssInjected, npcHealthMap,
                    trackedNPCs, obs, now, emitted, rendered, config >>
    /\ UNCHANGED botVars

\* A direct call shouldTrackNPC(npc, npcName) with npc._combat._level = combat.
CallFilter(npcName, combat) ==
    /\ filterIn' = << npcName, combat >>
    /\ filterOut' = shouldTrackNPC([defined |-> TRUE, combat |-> combat], npcName)
    /\ UNCHANGED << host, autoTrackEnabled, trackBosses, enabled, timerContainer, entityManager,
                    pendingRetries, cssInjected, npcHealthMap, trackedNPCs, obs, registry,
                    snapshot, now, log, outcome, emitted, rendered >>
    /\ UNCHANGED botVars

(***************************************************************************)
(* The host: entities and what a tick can read of them.                    *)
(***************************************************************************)
\* Coordinates are in halves: 21 stands for 10.5.
Entity(name, combat, cx, cz, lx, lz, mapLevel) ==
    [name |-> name, combat |-> combat,
     currentGamePosition |-> [x |-> cx, z |-> cz],
     lastGamePosition |-> [x |-> lx, z |-> lz],
     currentMapLevel |-> mapLevel]

\* The worlds the plugin is run in: which entity each id of _npcs is.
Worlds ==
    << (1 :> Entity("Fire Dragon", 50, 21, 14, 20, 14, 1)
        @@ 2 :> Entity("Cave Chicken", 35, 0, 6, 8, 6, 2)),
       (1 :> Entity(Undefined, 40, 4, 4, 4, 4, 1)
        @@ 2 :> Entity("Blood Mage", 45, 0, 0, 0, 0, 0)) >>

Hitpoints(cur, lvl) == [present |-> TRUE, currentLevel |-> cur, level |-> lvl]
NoHitpoints == [present |-> FALSE, currentLevel |-> 0, level |-> 0]

\* What a tick finds under an id of _npcs: an NPC without _def, or an NPC with
\* its hitpoints object missing or holding (current level, level).  The first
\* id takes every shape, the second the two a kill needs.
Shapes ==
    (1 :> { [hasDef |-> FALSE, hitpoints |-> NoHitpoints],
            [hasDef |-> TRUE, hitpoints |-> NoHitpoints],
            [hasDef |-> TRUE, hitpoints |-> Hitpoints(10, 10)],
            [hasDef |-> TRUE, hitpoints |-> Hitpoints(0, 10)],
            [hasDef |-> TRUE, hitpoints |-> Hitpoints(0, 0)] }
     @@ 2 :> { [hasDef |-> TRUE, hitpoints |-> Hitpoints(10, 10)],
               [hasDef |-> TRUE, hitpoints |-> Hitpoints(0, 0)] })

\* The NPC object of entity e in the given shape.
Npc(e, shape) ==
    [present |-> TRUE, hasDef |-> shape.hasDef, hitpoints |-> shape.hitpoints,
     name |-> e.name, combat |-> e.combat,
     currentGamePosition |-> e.currentGamePosition,
     lastGamePosition |-> e.lastGamePosition,
     currentMapLevel |-> e.currentMapLevel]

\* The _npcs table: a partial function from ids to shapes, enumerated by ascending id
\* (both insertion orders of npcHealthMap arise from ids first seen on different ticks).
RECURSIVE TableSeq(_, _, _)
TableSeq(world, f, ids) ==
    IF ids = {} THEN << >>
    ELSE LET id == CHOOSE x \in ids : \A y \in ids : x <= y
         IN  << [id |-> id, npc |-> Npc(world[id], f[id])] >> \o TableSeq(world, f, ids \ {id})

\* Every table over the given ids, per world.
TablesOver(idSets) ==
    [w \in DOMAIN Worlds |->
        { TableSeq(Worlds[w], f, DOMAIN f) :
            f \in UNION { { g \in [ids -> UNION { Shapes[i] : i \in NPCIds }] :
                              \A i \in ids : g[i] \in Shapes[i] } : ids \in idSets } }]

Tables == TablesOver(SUBSET NPCIds)

Deltas == {0, 45000}

\* A tick of the host's game loop: the clock advances by d and _npcs, when it
\* can be read, is one of tables.
TickEvery(deltas, tables, availability, watch) ==
    \E d \in deltas, available \in availability :
        /\ now + d <= MaxNow
        /\ \E npcs \in (IF available THEN tables[host] ELSE { << >> }) :
              /\ GameLoop_update(available, npcs, now + d)
              /\ History(watch, available, npcs)

TickWith(tables, availability, watch) == TickEvery(Deltas, tables, availability, watch)

Tick == TickWith(Tables, {TRUE}, Watch({}, FALSE))

(***************************************************************************)
(* Tree Cutter Bot.  Its strings are tuples of characters.  Math.sqrt is   *)
(* monotone, so XZ distances are compared by their squares.                *)
(***************************************************************************)
treeNameIncludes == <<"t","r","e","e">>
treeNameExcludes ==
    <<"o","a","k",",","w","i","l","l","o","w",",","y","e","w",",","m","a","g","i","c">>
bankNameIncludes == <<"b","a","n","k">>
maxTargetDistance == 30
tickIntervalMs == 650

\* ActionState values that make GameLoop_update return at once.
BusyStates == {"WoodcuttingState", "TreeShakingState", "MovingState", "MovingTowardTargetState"}

\* String.prototype.trim
RECURSIVE trimStart(_)
trimStart(s) == IF s # << >> /\ Head(s) = " " THEN trimStart(Tail(s)) ELSE s

RECURSIVE trimEnd(_)
trimEnd(s) == IF s # << >> /\ s[Len(s)] = " " THEN trimEnd(SubSeq(s, 1, Len(s) - 1)) ELSE s

trim(s) == trimEnd(trimStart(s))

\* String.prototype.split(',')
RECURSIVE split(_)
split(s) ==
    IF \E k \in 1..Len(s) : s[k] = ","
    THEN LET k == CHOOSE i \in 1..Len(s) : s[i] = "," /\ \A j \in 1..(i - 1) : s[j] # ","
         IN  << SubSeq(s, 1, k - 1) >> \o split(SubSeq(s, k + 1, Len(s)))
    ELSE << s >>

\* value.split(',').map(s => s.trim().toLowerCase()).filter(Boolean)
ExcludeTerms(value) ==
    SelectSeq([i \in 1..Len(split(value)) |-> toLowerCase(trim(split(value)[i]))],
              LAMBDA term : term # << >>)

\* A slot of Inventory.Items: null, or an item with the name of its _def.
NullSlot == [item |-> FALSE, name |-> << >>]
Item(name) == [item |-> TRUE, name |-> name]

\* getInventoryItems(player) returned null
NoItems == [present |-> FALSE, items |-> << >>]
Items(slots) == [present |-> TRUE, items |-> slots]

\* isInventoryFull(items)
isInventoryFull(items) ==
    IF Len(items) = 0 THEN FALSE
    ELSE \A i \in 1..Len(items) : items[i].item

\* Mutant: the names are compared as they are spelled.
getInventorySlotsByNameIncludes_CaseSensitive(items, nameIncludes) ==
    LET needle == trim(toLowerCase(nameIncludes))
        hit == [i \in 1..Len(items) |-> includes(items[i].name, needle)]
        RECURSIVE Slots(_)
        Slots(i) == IF i > Len(items) THEN << >>
                    ELSE (IF hit[i] THEN << i - 1 >> ELSE << >>) \o Slots(i + 1)
    IN  IF needle = << >> THEN << >> ELSE Slots(1)

\* getInventorySlotsByNameIncludes(items, nameIncludes): slot numbers from 0.
getInventorySlotsByNameIncludes(items, nameIncludes) ==
    LET needle == trim(toLowerCase(nameIncludes))
        hit == [i \in 1..Len(items) |-> includes(toLowerCase(items[i].name), needle)]
        RECURSIVE Slots(_)
        Slots(i) == IF i > Len(items) THEN << >>
                    ELSE (IF hit[i] THEN << i - 1 >> ELSE << >>) \o Slots(i + 1)
    IN  IF needle = << >> THEN << >> ELSE Slots(1)

\* A world entity: _name (or none) and the absolutePosition of its first mesh
\* (or none).
WorldEntity(name, x, z) == [named |-> TRUE, name |-> name, readable |-> TRUE, x |-> x, z |-> z]
Nameless(x, z) == [named |-> FALSE, name |-> << >>, readable |-> TRUE, x |-> x, z |-> z]
Meshless(name) == [named |-> TRUE, name |-> name, readable |-> FALSE, x |-> 0, z |-> 0]

\* WorldEntityManager.Instance.WorldEntities: missing, or a Map in insertion order.
NoWorldEntities == [present |-> FALSE, entities |-> << >>]
WorldEntities(entities) == [present |-> TRUE, entities |-> entities]

\* getPlayerWorldPosition(player): null or {x, z}.
NoPlayerPosition == [readable |-> FALSE, x |-> 0, z |-> 0]
PlayerPosition(x, z) == [readable |-> TRUE, x |-> x, z |-> z]

\* distanceXZ(a, b), squared.
distanceXZ(a, b) == (a.x - b.x) * (a.x - b.x) + (a.z - b.z) * (a.z - b.z)

\* let bestDist = Infinity
Infinity == -1

\* Mutant: a candidate as close as the best one replaces it.
Closer_OrEqual(d, bestDist) == bestDist = Infinity \/ d <= bestDist

\* if (d < bestDist)
Closer(d, bestDist) == bestDist = Infinity \/ d < bestDist

\* The tests of one loop iteration that end in "continue" when they fail.
Candidate(entity, include, excludes, playerPos) ==
    /\ entity.named
    /\ include # << >> => includes(toLowerCase(entity.name), include)
    /\ ~\E k \in 1..Len(excludes) :
            excludes[k] # << >> /\ includes(toLowerCase(entity.name), excludes[k])
    /\ entity.readable
    /\ distanceXZ(playerPos, entity) <= maxTargetDistance * maxTargetDistance

\* The loop "for (const [, entity] of worldEntities)" from entry i on; best is
\* the place of the best entity so far (0 for null).
RECURSIVE NearestFrom(_, _, _, _, _, _, _)
NearestFrom(entities, i, best, bestDist, include, excludes, playerPos) ==
    IF i > Len(entities) THEN best
    ELSE IF Candidate(entities[i], include, excludes, playerPos)
            /\ Closer(distanceXZ(playerPos, entities[i]), bestDist)
         THEN NearestFrom(entities, i + 1, i, distanceXZ(playerPos, entities[i]),
                          include, excludes, playerPos)
         ELSE NearestFrom(entities, i + 1, best, bestDist, include, excludes, playerPos)

\* findNearestWorldEntityByName(nameIncludes, nameExcludes, player) over the
\* given WorldEntities: the place of the entity returned, 0 for null.
findNearestWorldEntityByName(nameIncludes, nameExcludes, playerPos, worldEntities) ==
    IF ~worldEntities.present THEN 0
    ELSE IF ~playerPos.readable THEN 0
    ELSE NearestFrom(worldEntities.entities, 1, 0, Infinity,
                     trim(toLowerCase(nameIncludes)),
                     [k \in 1..Len(nameExcludes) |-> toLowerCase(nameExcludes[k])],
                     playerPos)

\* The main player: none, or its action state, whether it has a target, its
\* position and its inventory.
NoPlayer ==
    [present |-> FALSE, currentState |-> "none", currentTarget |-> FALSE,
     position |-> NoPlayerPosition, inventory |-> NoItems]
Player(currentState, currentTarget, inventory) ==
    [present |-> TRUE, currentState |-> currentState, currentTarget |-> currentTarget,
     position |-> PlayerPosition(0, 0), inventory |-> inventory]

\* clickWorldEntity / clickInventorySlot: the click action, and whether its
\* events were dispatched (the entity projects to the screen, the cell exists).
WorldClick(purpose, target, dispatched) ==
    [kind |-> "world", purpose |-> purpose, target |-> target, dispatched |-> dispatched]
SlotClick(slot, dispatched) ==
    [kind |-> "slot", purpose |-> "deposit", target |-> slot, dispatched |-> dispatched]

\* if (isFull) { this.state = 'banking'; }
Banking(bot, isFull) == IF isFull THEN "banking" ELSE bot.state

\* Mutant: the throttle is not applied.
Throttled_Never(bot, t) == FALSE

\* if (now - this.lastActionAt < this.settings.tickIntervalMs.value) return
Throttled(bot, t) == t - bot.lastActionAt < tickIntervalMs

\* The banking flow of GameLoop_update.
BankingFlow(bot, in) ==
    IF ~in.bankVisible
    THEN LET bankEntity == findNearestWorldEntityByName(bankNameIncludes, << >>,
                                                        in.player.position, in.worldEntities)
         IN  IF bankEntity = 0
             THEN [bot EXCEPT !.state = "banking", !.lastActionAt = in.now]
             ELSE [bot EXCEPT !.state = "banking", !.lastActionAt = in.now,
                              !.pendingBankOpenAt = in.now,
                              !.clicks = << WorldClick("bank", bankEntity, in.clickable) >>]
    ELSE LET logSlots == getInventorySlotsByNameIncludes(in.player.inventory.items,
                                                         bot.logNameIncludes)
         IN  IF Len(logSlots) = 0
             THEN [bot EXCEPT !.state = "cutting", !.lastActionAt = in.now]
             ELSE [bot EXCEPT !.state = "banking", !.lastActionAt = in.now,
                              !.clicks = << SlotClick(logSlots[1], in.clickable) >>]

\* The cutting flow of GameLoop_update.
CuttingFlow(bot, in, isFull) ==
    IF in.bankVisible THEN [bot EXCEPT !.lastActionAt = in.now]
    ELSE IF isFull THEN [bot EXCEPT !.state = "banking", !.lastActionAt = in.now]
    ELSE IF in.player.currentState # "IdleState" \/ in.player.currentTarget THEN bot
    ELSE LET treeEntity == findNearestWorldEntityByName(treeNameIncludes,
                                                        ExcludeTerms(treeNameExcludes),
                                                        in.player.position, in.worldEntities)
         IN  IF treeEntity = 0
             THEN [bot EXCEPT !.lastActionAt = in.now]
             ELSE [bot EXCEPT !.lastActionAt = in.now,
                              !.clicks = << WorldClick("tree", treeEntity, in.clickable) >>]

\* TreeCutterBot.GameLoop_update on the fields bot with Date.now() = in.now:
\* the fields and the click actions it leaves.
TreeCutterBot_update(bot, in) ==
    LET idle == [bot EXCEPT !.clicks = << >>]
    IN  IF ~bot.enabled THEN idle
        ELSE IF Throttled(bot, in.now) THEN idle
        ELSE IF ~in.player.present THEN idle
        ELSE IF in.player.currentState \in BusyStates THEN idle
        ELSE IF ~in.player.inventory.present THEN idle
        ELSE LET isFull == isInventoryFull(in.player.inventory.items)
             IN  IF Banking(bot, isFull) = "banking"
                 THEN BankingFlow(idle, in)
                 ELSE CuttingFlow(idle, in, isFull)

\* The fields of the plugin.
Bot ==
    [enabled |-> botEnabled, state |-> state, lastActionAt |-> lastActionAt,
     pendingBankOpenAt |-> pendingBankOpenAt, logNameIncludes |-> logNameIncludes,
     clicks |-> clicks]

\* GameLoop_update of the Tree Cutter Bot.
TreeCutterBot_GameLoop_update(in) ==
    /\ now' = in.now
    /\ \E after \in { TreeCutterBot_update(Bot, in) } :
          /\ state' = after.state
          /\ lastActionAt' = after.lastActionAt
          /\ pendingBankOpenAt' = after.pendingBankOpenAt
          /\ clicks' = after.clicks
    /\ outcome' = "botTick"
    /\ UNCHANGED << botEnabled, logNameIncludes, searchIn, searchOut, timerVars >>

\* start() of the Tree Cutter Bot.
TreeCutterBot_start ==
    /\ IF ~botEnabled THEN UNCHANGED << state, lastActionAt, pendingBankOpenAt >>
       ELSE /\ lastActionAt' = 0
            /\ pendingBankOpenAt' = 0
            /\ state' = "cutting"
    /\ clicks' = << >>
    /\ outcome' = "botStart"
    /\ UNCHANGED << now, botEnabled, logNameIncludes, searchIn, searchOut, timerVars >>

\* stop() of the Tree Cutter Bot.
TreeCutterBot_stop ==
    /\ lastActionAt' = 0
    /\ pendingBankOpenAt' = 0
    /\ state' = "cutting"
    /\ clicks' = << >>
    /\ outcome' = "botStop"
    /\ UNCHANGED << now, botEnabled, logNameIncludes, searchIn, searchOut, timerVars >>

\* The settings panel sets the bot's settings.enable.value.
TreeCutterBot_SetEnable(b) ==
    /\ botEnabled # b
    /\ botEnabled' = b
    /\ clicks' = << >>
    /\ outcome' = "botEnable"
    /\ UNCHANGED << now, state, lastActionAt, pendingBankOpenAt, logNameIncludes, searchIn,
                    searchOut, timerVars >>

\* A direct call findNearestWorldEntityByName(nameIncludes, nameExcludes, player).
CallSearch(nameIncludes, nameExcludes, playerPos, worldEntities) ==
    /\ searchIn' = [nameIncludes |-> nameIncludes, nameExcludes |-> nameExcludes,
                    playerPos |-> playerPos, worldEntities |-> worldEntities]
    /\ searchOut' = findNearestWorldEntityByName(nameIncludes, nameExcludes, playerPos,
                                                 worldEntities)
    /\ outcome' = "search"
    /\ UNCHANGED << now, botEnabled, state, lastActionAt, pendingBankOpenAt, logNameIncludes,
                    clicks, timerVars >>

NoSearch == [nameIncludes |-> << >>, nameExcludes |-> << >>, playerPos |-> NoPlayerPosition,
             worldEntities |-> NoWorldEntities]

\* The bot as constructed.
InitBot ==
    /\ botEnabled = TRUE
    /\ state = "cutting"
    /\ lastActionAt = 0
    /\ pendingBankOpenAt = 0
    /\ logNameIncludes = <<"l","o","g">>
    /\ clicks = << >>
    /\ searchIn = NoSearch
    /\ searchOut = 0

(***************************************************************************)
(* Specifications.                                                         *)
(***************************************************************************)
InitTimer ==
    /\ enabled = TRUE
    /\ timerContainer = FALSE
    /\ entityManager = FALSE
    /\ pendingRetries = 0
    /\ cssInjected = FALSE
    /\ npcHealthMap = << >>
    /\ trackedNPCs = << >>
    /\ now = 0
    /\ log = << >>
    /\ outcome = "init"
    /\ obs = NoObs
    /\ registry = "unread"
    /\ snapshot = {}
    /\ emitted = [id \in NPCIds |-> NoneEmitted]
    /\ rendered = << >>
    /\ filterIn = << >>
    /\ filterOut = "none"

InitPlugin == InitTimer /\ InitBot

Init ==
    /\ host \in DOMAIN Worlds
    /\ autoTrackEnabled = TRUE
    /\ trackBosses = TRUE
    /\ InitPlugin

\* The detector and the timers, with the host's EntityManager ready at start().
Next ==
    \/ Tick
    \/ \E hsMask \in BOOLEAN : start(hsMask, TRUE)
    \/ stop
    \/ \E id \in NPCIds : removeBtn_onclick(id)

Spec == Init /\ [][Next]_vars

\* The plugin's life cycle in full (settings switch, missing EntityManager and
\* its retry), in the second world with only its Blood Mage in sight.
InitLifecycle ==
    /\ host = 2
    /\ autoTrackEnabled = TRUE
    /\ trackBosses = TRUE
    /\ InitPlugin

TickLifecycle == TickWith(TablesOver({ {}, {2} }), BOOLEAN, Watch({}, TRUE))

NextLifecycle ==
    \/ TickLifecycle
    \/ \E hsMask \in BOOLEAN, instance \in BOOLEAN : start(hsMask, instance)
    \/ \E instance \in BOOLEAN : RetrySetup(instance)
    \/ stop
    \/ \E id \in NPCIds : removeBtn_onclick(id)
    \/ \E b \in BOOLEAN : SetEnable(b)

SpecLifecycle == InitLifecycle /\ [][NextLifecycle]_vars

\* A host that alternates start() and stop() (#hs-screen-mask exists, so the
\* plugin has its container exactly from start() to stop()), with the retry of
\* setupNPCTracking running whenever it is pending.
InitRestart ==
    /\ host = 2
    /\ autoTrackEnabled = TRUE
    /\ trackBosses = TRUE
    /\ InitPlugin

TickRestart == TickWith(TablesOver({ {}, {2} }), BOOLEAN, WatchSnapshot({}, TRUE))

NextRestart ==
    \/ TickRestart
    \/ /\ ~timerContainer
       /\ \E instance \in BOOLEAN : start(TRUE, instance)
    \/ \E instance \in BOOLEAN : RetrySetup(instance)
    \/ /\ timerContainer
       /\ stop
    \/ \E id \in NPCIds : removeBtn_onclick(id)

SpecRestart == InitRestart /\ [][NextRestart]_vars

\* One entity of the first world (the Fire Dragon), watched from tick to tick.
InitDeath ==
    /\ host = 1
    /\ autoTrackEnabled = TRUE
    /\ trackBosses = TRUE
    /\ InitPlugin

TickDeath == TickWith(TablesOver({ {}, {1} }), BOOLEAN, Watch({1}, FALSE))

NextDeath ==
    \/ TickDeath
    \/ \E hsMask \in BOOLEAN : start(hsMask, TRUE)
    \/ stop
    \/ \E id \in NPCIds : removeBtn_onclick(id)

SpecDeath == InitDeath /\ [][NextDeath]_vars

\* The countdown of the Blood Mage's Timer (60 s), with ticks 0, 14, 15.5 or
\* 46 seconds apart.
InitCountdown ==
    /\ host = 2
    /\ autoTrackEnabled = TRUE
    /\ trackBosses = TRUE
    /\ InitPlugin

CountdownDeltas == {0, 14000, 15500, 46000}

TickCountdown ==
    /\ TickEvery(CountdownDeltas, TablesOver({ {}, {2} }), {TRUE}, Watch({}, FALSE))
    /\ now' <= MaxCountdown

NextCountdown ==
    \/ TickCountdown
    \/ start(TRUE, TRUE)
    \/ \E id \in NPCIds : removeBtn_onclick(id)

SpecCountdown == InitCountdown /\ [][NextCountdown]_vars

\* The timer list: Timers added by hand (addTestNPC) every minute or in the
\* same millisecond, with or without the container, next to the Blood Mage's;
\* ticks count them down unless the plugin is switched off.
InitRender ==
    /\ host = 2
    /\ autoTrackEnabled = TRUE
    /\ trackBosses = TRUE
    /\ InitPlugin

RenderDeltas == {0, 60000}

RenderNames == {"Blood Mage", "Brute", "Forest Warrior"}

TickRender == TickEvery(RenderDeltas, TablesOver({ {}, {2} }), {TRUE}, Watch({}, FALSE))

NextRender ==
    \/ TickRender
    \/ /\ ~timerContainer
       /\ start(TRUE, TRUE)
    \/ /\ timerContainer
       /\ stop
    \/ \E name \in RenderNames, d \in RenderDeltas :
          /\ now + d <= MaxNow
          /\ addTestNPC(name, now + d)
    \/ \E id \in MapKeys(trackedNPCs) : removeBtn_onclick(id)
    \/ \E b \in BOOLEAN : SetEnable(b)

SpecRender == InitRender /\ [][NextRender]_vars

\* The Tree Cutter Bot between a tree, a bank chest and nothing in reach, with
\* the log filter at its default or cleared by the user.
LogFilters == { <<"l","o","g">>, << >> }

InitTreeCutter ==
    /\ host = 2
    /\ autoTrackEnabled = TRUE
    /\ trackBosses = TRUE
    /\ InitTimer
    /\ botEnabled = TRUE
    /\ state = "cutting"
    /\ lastActionAt = 0
    /\ pendingBankOpenAt = 0
    /\ logNameIncludes \in LogFilters
    /\ clicks = << >>
    /\ searchIn = NoSearch
    /\ searchOut = 0

Logs == Item(<<"L","o","g","s">>)
Axe == Item(<<"A","x","e">>)

\* Inventories of two slots (none, empty, and with and without logs and room).
BotInventories ==
    { NoItems, Items(<< >>), Items(<< NullSlot, NullSlot >>), Items(<< Logs, NullSlot >>),
      Items(<< Axe, Logs >>), Items(<< Axe, Axe >>), Items(<< Logs, Logs >>) }

BotPlayers ==
    { NoPlayer }
    \cup { Player(currentState, FALSE, inventory) :
             currentState \in BusyStates \cup {"IdleState", "FishingState"},
             inventory \in BotInventories }
    \cup { Player("IdleState", TRUE, inventory) : inventory \in BotInventories }

\* What stands around the player (at the origin): nothing readable, two trees
\* at the same distance and a bank chest, or only an oak, a tree out of reach
\* and a bank chest without a mesh.
BotWorlds ==
    { NoWorldEntities,
      WorldEntities(<< WorldEntity(<<"t","r","e","e">>, 3, 4),
                       WorldEntity(<<"P","i","n","e"," ","T","r","e","e">>, 5, 0),
                       WorldEntity(<<"B","a","n","k"," ","C","h","e","s","t">>, 6, 0) >>),
      WorldEntities(<< WorldEntity(<<"o","a","k"," ","t","r","e","e">>, 1, 0),
                       WorldEntity(<<"t","r","e","e">>, 0, 31),
                       Meshless(<<"B","a","n","k"," ","C","h","e","s","t">>) >>) }

BotDeltas == {300, 650}

\* The inputs of a tick of the bot at clock value t.
TickInputs(t) ==
    { [now |-> t, player |-> player, bankVisible |-> bankVisible,
       worldEntities |-> worldEntities, clickable |-> clickable] :
         player \in BotPlayers, bankVisible \in BOOLEAN, worldEntities \in BotWorlds,
         clickable \in BOOLEAN }

TickTreeCutter ==
    \E d \in BotDeltas :
        /\ now + d <= MaxBotNow
        /\ \E in \in TickInputs(now + d) : TreeCutterBot_GameLoop_update(in)

NextTreeCutter ==
    \/ TickTreeCutter
    \/ TreeCutterBot_start
    \/ TreeCutterBot_stop
    \/ \E b \in BOOLEAN : TreeCutterBot_SetEnable(b)

SpecTreeCutter == InitTreeCutter /\ [][NextTreeCutter]_vars

\* findNearestWorldEntityByName as a function of its arguments and of
\* WorldEntities: up to three entities in every order.
SearchEntities ==
    { WorldEntity(<<"t","r","e","e">>, 3, 4),
      WorldEntity(<<"P","i","n","e"," ","T","r","e","e">>, 5, 0),
      WorldEntity(<<"o","a","k"," ","t","r","e","e">>, 1, 0),
      WorldEntity(<<"t","r","e","e">>, 0, 30),
      WorldEntity(<<"t","r","e","e">>, 0, 31),
      WorldEntity(<<"B","a","n","k"," ","C","h","e","s","t">>, 4, 3),
      Nameless(1, 1),
      Meshless(<<"t","r","e","e">>) }

SearchWorlds ==
    { NoWorldEntities }
    \cup { WorldEntities(entities) :
             entities \in UNION { [1..n -> SearchEntities] : n \in 0..MaxEntities } }

SearchIncludes == { <<"t","r","e","e">>, <<"T","r","e","e"," ">>, <<"b","a","n","k">>, << >> }

SearchExcludes == { << >>, << <<"o","a","k">> >>, << << >>, <<"p","i","n","e">> >> }

SearchInputs ==
    { [nameIncludes |-> nameIncludes, nameExcludes |-> nameExcludes,
       playerPos |-> playerPos, worldEntities |-> worldEntities] :
         nameIncludes \in SearchIncludes, nameExcludes \in SearchExcludes,
         playerPos \in { PlayerPosition(0, 0), NoPlayerPosition },
         worldEntities \in SearchWorlds }

InitSearch ==
    /\ host = 2
    /\ autoTrackEnabled = TRUE
    /\ trackBosses = TRUE
    /\ InitTimer
    /\ botEnabled = TRUE
    /\ state = "cutting"
    /\ lastActionAt = 0
    /\ pendingBankOpenAt = 0
    /\ logNameIncludes = <<"l","o","g">>
    /\ clicks = << >>
    /\ searchIn \in SearchInputs
    /\ searchOut = 0

NextSearch ==
    /\ outcome = "init"
    /\ CallSearch(searchIn.nameIncludes, searchIn.nameExcludes, searchIn.playerPos,
                  searchIn.worldEntities)

SpecSearch == InitSearch /\ [][NextSearch]_vars

\* shouldTrackNPC as a function of its arguments and of trackBosses.
FilterNames ==
    { "Fire Dragon", "Cave Chicken", "Blood Mage", "Goblin", "fire dragon", "Human Knight",
      "Wizard", "Dragon Rat", "Frost Giant", "Bandit" }

FilterLevels == { 0, 1, minNPCLevel - 1, minNPCLevel, minNPCLevel + 1, 99 }

InitFilter ==
    /\ host = 1
    /\ autoTrackEnabled = TRUE
    /\ trackBosses \in BOOLEAN
    /\ InitPlugin

NextFilter == \E npcName \in FilterNames, combat \in FilterLevels : CallFilter(npcName, combat)

SpecFilter == InitFilter /\ [][NextFilter]_vars


(***************************************************************************)
(* Properties.                                                             *)
(***************************************************************************)
Events(type) == { log[i] : i \in { j \in 1..Len(log) : log[j].type = type } }

Timers == { trackedNPCs[i] : i \in 1..Len(trackedNPCs) }

Records == { npcHealthMap[i] : i \in 1..Len(npcHealthMap) }

\* C1 (SpecDeath): when an id was seen with a positive current level, then with
\* current level 0, and is not enumerated on the following tick, a Timer for it
\* exists after that tick; for "Fire Dragon" its respawnTime is 600 and, created
\* on that tick, its spawnTimestamp is now + 600000.
C1_DeathThenDespawnTimer ==
    \A id \in NPCIds :
        (outcome = "tick" /\ obs[id] = "gone") =>
            /\ MapHas(trackedNPCs, id)
            /\ MapGet(trackedNPCs, id).name = "Fire Dragon" =>
                  /\ MapGet(trackedNPCs, id).respawnTime = 600
                  /\ (\E e \in Events("created") : e.id = id) =>
                        MapGet(trackedNPCs, id).spawnTimestamp = now + 600000

\* C2 (Spec): a tick creates a Timer for an id only when the id is not enumerated
\* on that tick and the health last recorded for it is exactly 0.
C2_TimerOnlyAfterZeroHealth ==
    \A e \in Events("created") : e.absent /\ e.hp = 0

C2_Witness ==
    /\ outcome = "tick"
    /\ \E e \in Events("created") : e.absent /\ e.hp = 0 /\ MapHas(trackedNPCs, e.id)

\* C3 (Spec): no entity whose name contains a blacklisted substring ("Cave
\* Chicken") ever has a Timer.
C3_NoTimerForBlacklisted ==
    \A timer \in Timers : timer.name # "Cave Chicken"

\* C4 (Spec), as claimed: npcHealthMap and trackedNPCs never both contain an id.
C4_NeverBoth ==
    \A id \in NPCIds : ~(MapHas(npcHealthMap, id) /\ MapHas(trackedNPCs, id))

\* C4 (Spec), amended: an id is in both maps after a step only if it had its
\* Timer before the step; the step that creates a Timer leaves no HealthRecord
\* of that id.
C4_BothOnlyForOlderTimer ==
    [][\A id \in NPCIds :
          (MapHas(npcHealthMap', id) /\ MapHas(trackedNPCs', id)) => MapHas(trackedNPCs, id)]_vars

C4_Witness ==
    \E id \in NPCIds :
        /\ outcome = "tick"
        /\ MapHas(npcHealthMap, id)
        /\ MapHas(trackedNPCs, id)

\* C5 (Spec): for every Timer the number of "spawning soon" notifications shown
\* is 1 if alerted is set and 0 if not, and the number of "spawned" notifications
\* is 1 if spawned is set and 0 if not: each flag is set at most once, is never
\* reset, and each notification is shown at most once.
Flag(b) == IF b THEN 1 ELSE 0

C5_FlagsAndNotificationsOnce ==
    \A timer \in Timers :
        /\ emitted[timer.id].soon = Flag(timer.alerted)
        /\ emitted[timer.id].spawned = Flag(timer.spawned)

C5_Witness ==
    \E timer \in Timers :
        /\ timer.alerted /\ timer.spawned
        /\ emitted[timer.id] = [soon |-> 1, spawned |-> 1]
        /\ outcome = "tick" /\ log = << >>
        /\ now > timer.spawnTimestamp

\* C6 (Spec), as claimed: after a tick that ran updateTimers no spawned Timer is
\* left with now - spawnTimestamp >= 30000.
C6_RemovedAtThirtySeconds ==
    outcome = "tick" =>
        \A timer \in Timers : ~(timer.spawned /\ now - timer.spawnTimestamp >= 30000)

\* C6 (Spec), amended: after a run of updateTimers no Timer is left with
\* now - spawnTimestamp > 30000, and every Timer it removed had
\* now - spawnTimestamp > 30000 (exactly 30000 is not enough).
C6_RemovedAfterThirtySeconds ==
    outcome = "tick" =>
        /\ \A timer \in Timers : now - timer.spawnTimestamp <= 30000
        /\ \A e \in Events("removed") : now - e.spawnTimestamp > 30000

C6_Witness ==
    /\ outcome = "tick"
    /\ \E e \in Events("removed") : now - e.spawnTimestamp > 30000 /\ ~MapHas(trackedNPCs, e.id)

C8_NoTickAborts == outcome # "TypeError"

\* C9 (Spec): every Timer's respawnTime is the table's value for exactly its
\* name, 120 when the table has none, and the spawnTimestamp of a Timer created
\* on this tick is now + respawnTime * 1000.
TableValues(npcName) == { p[2] : p \in { q \in customRespawnTimes : q[1] = npcName } }

C9_RespawnTimeFromTable ==
    \A timer \in Timers :
        /\ IF TableValues(timer.name) # {}
           THEN timer.respawnTime \in TableValues(timer.name)
           ELSE timer.respawnTime = 120
        /\ timer.name = "Fire Dragon" => timer.respawnTime = 600
        /\ (\E e \in Events("created") : e.id = timer.id) =>
              timer.spawnTimestamp = now + timer.respawnTime * 1000

C9_Witness ==
    /\ \E timer \in Timers : timer.name = "Fire Dragon" /\ timer.respawnTime = 600
    /\ \E timer \in Timers :
          /\ timer.name = "Cave Chicken" /\ timer.respawnTime = 120
          /\ timer.spawnTimestamp = now + 120000
          /\ \E e \in Events("created") : e.id = timer.id

\* C10 (SpecFilter): shouldTrackNPC rejects a name with a blacklisted substring
\* whatever else holds; otherwise accepts a name with a boss keyword when
\* trackBosses is set; otherwise accepts exactly when the combat level is at
\* least minNPCLevel.
BlacklistedInputs == { "Cave Chicken", "Human Knight", "Dragon Rat" }

BossInputs == { "Fire Dragon", "fire dragon", "Human Knight", "Dragon Rat", "Frost Giant" }

C10_FilterPrecedence ==
    filterOut # "none" =>
        filterOut = IF filterIn[1] \in BlacklistedInputs THEN "false"
                    ELSE IF trackBosses /\ filterIn[1] \in BossInputs THEN "true"
                    ELSE IF filterIn[2] >= 30 THEN "true"
                    ELSE "false"

C10_Witness ==
    /\ trackBosses
    /\ filterIn = << "Human Knight", 99 >>
    /\ filterOut = "false"

\* C11 (Spec): while an id keeps its Timer, the Timer's spawnTimestamp,
\* respawnTime, name, position and level do not change: no step (a tick's
\* monitorNPCHealth and updateTimers included) alters them.
C11_TimerFieldsFixed ==
    [][\A id \in NPCIds :
          (MapHas(trackedNPCs, id) /\ MapHas(trackedNPCs', id)) =>
              /\ MapGet(trackedNPCs', id).spawnTimestamp = MapGet(trackedNPCs, id).spawnTimestamp
              /\ MapGet(trackedNPCs', id).respawnTime = MapGet(trackedNPCs, id).respawnTime
              /\ MapGet(trackedNPCs', id).name = MapGet(trackedNPCs, id).name
              /\ MapGet(trackedNPCs', id).position = MapGet(trackedNPCs, id).position
              /\ MapGet(trackedNPCs', id).level = MapGet(trackedNPCs, id).level]_vars

\* A tick later than the Timer's creation confirmed a despawn of its id and
\* set its alerted flag.
C11_Witness ==
    \E timer \in Timers :
        /\ outcome = "tick"
        /\ \E e \in Events("tracked") : e.id = timer.id
        /\ \E e \in Events("soon") : e.id = timer.id
        /\ timer.alerted
        /\ timer.spawnTimestamp = 60000
        /\ now = 45000

\* What a run of updateTimers at clock value t should compute for a Timer:
\* max(0, floor((spawnTimestamp - t) / 1000)).
SecondsLeft(timer, t) ==
    IF timer.spawnTimestamp - t >= 1000
    THEN CHOOSE n \in 1..900 : n * 1000 <= timer.spawnTimestamp - t /\ timer.spawnTimestamp - t < (n + 1) * 1000
    ELSE 0

EventsOf(events, type, id) ==
    { events[i] : i \in { j \in 1..Len(events) : events[j].type = type /\ events[j].id = id } }

\* C12 (SpecCountdown): a tick that runs updateTimers at a clock value where a
\* Timer with alerted unset has 0 < remaining <= 15 sets its alerted flag and
\* shows exactly one "spawning soon" notification, with the Timer's name and
\* that remaining value; where remaining > 15 the Timer is left as it was and
\* nothing is shown for it.
C12_AlertRule ==
    [][outcome' = "tick" =>
          \A id \in MapKeys(trackedNPCs) :
              LET timer == MapGet(trackedNPCs, id)
                  remaining == SecondsLeft(timer, now')
              IN  /\ (0 < remaining /\ remaining <= 15 /\ ~timer.alerted) =>
                        /\ MapHas(trackedNPCs', id)
                        /\ MapGet(trackedNPCs', id) = [timer EXCEPT !.alerted = TRUE]
                        /\ Count(log', "soon", id) = 1
                        /\ \A e \in EventsOf(log', "soon", id) :
                              e.name = timer.name /\ e.remaining = remaining
                  /\ remaining > 15 =>
                        /\ MapHas(trackedNPCs', id)
                        /\ MapGet(trackedNPCs', id) = timer
                        /\ Count(log', "soon", id) = 0
                        /\ Count(log', "spawned", id) = 0]_vars

\* The alert given 13.5 s before the spawn reports 13 seconds.
C12_Witness ==
    \E timer \in Timers :
        /\ outcome = "tick"
        /\ timer.alerted /\ ~timer.spawned
        /\ timer.spawnTimestamp - now = 13500
        /\ \E e \in EventsOf(log, "soon", timer.id) : e.remaining = 13 /\ e.name = "Blood Mage"

\* C13 (SpecCountdown): a tick that runs updateTimers at a clock value where a
\* Timer with spawned unset has remaining = 0 (spawnTimestamp = now included)
\* sets its spawned flag and shows exactly one "spawned" notification with the
\* Timer's name and no "spawning soon" notification for it (the Timer is then
\* either kept with spawned set or swept on that same tick); for a Timer whose
\* spawned flag is already set no "spawned" notification is shown again.
C13_SpawnedRule ==
    [][outcome' = "tick" =>
          \A id \in MapKeys(trackedNPCs) :
              LET timer == MapGet(trackedNPCs, id)
                  remaining == SecondsLeft(timer, now')
              IN  /\ (remaining = 0 /\ ~timer.spawned) =>
                        /\ Count(log', "spawned", id) = 1
                        /\ \A e \in EventsOf(log', "spawned", id) : e.name = timer.name
                        /\ Count(log', "soon", id) = 0
                        /\ IF MapHas(trackedNPCs', id)
                           THEN MapGet(trackedNPCs', id) = [timer EXCEPT !.spawned = TRUE]
                           ELSE \E e \in EventsOf(log', "removed", id) : e.spawned
                  /\ timer.spawned => Count(log', "spawned", id) = 0]_vars

\* The tick at exactly spawnTimestamp, for a Timer that was never alerted.
C13_Witness ==
    \E timer \in Timers :
        /\ outcome = "tick"
        /\ timer.spawnTimestamp = now
        /\ timer.spawned /\ ~timer.alerted
        /\ Count(log, "spawned", timer.id) = 1
        /\ Count(log, "soon", timer.id) = 0

\* C14 (SpecCountdown), as claimed: a tick at a clock value 14 s after the
\* spawnTimestamp of a Timer whose alerted flag is unset sets alerted and shows
\* a "spawning soon" notification with remaining = 14.
C14_ScenarioThreeAsStated ==
    [][outcome' = "tick" =>
          \A id \in MapKeys(trackedNPCs) :
              LET timer == MapGet(trackedNPCs, id)
              IN  (timer.spawnTimestamp = now' - 14000 /\ ~timer.alerted) =>
                      /\ MapHas(trackedNPCs', id)
                      /\ MapGet(trackedNPCs', id).alerted
                      /\ \E e \in EventsOf(log', "soon", id) : e.remaining = 14]_vars

\* C14 (SpecCountdown), amended: the scenario holds for spawnTimestamp =
\* now + 14 s: that tick sets alerted and shows exactly one "spawning soon"
\* notification with remaining = 14, and no tick shows one for a Timer whose
\* alerted flag is set.  At spawnTimestamp = now - 14 s remaining is 0: the tick
\* shows no "spawning soon" notification, and leaves alerted as it was.
C14_AlertFourteenSecondsBefore ==
    [][outcome' = "tick" =>
          \A id \in MapKeys(trackedNPCs) :
              LET timer == MapGet(trackedNPCs, id)
              IN  /\ (timer.spawnTimestamp = now' + 14000 /\ ~timer.alerted) =>
                        /\ MapHas(trackedNPCs', id)
                        /\ MapGet(trackedNPCs', id).alerted
                        /\ Count(log', "soon", id) = 1
                        /\ \A e \in EventsOf(log', "soon", id) : e.remaining = 14
                  /\ timer.alerted => Count(log', "soon", id) = 0
                  /\ timer.spawnTimestamp = now' - 14000 =>
                        /\ Count(log', "soon", id) = 0
                        /\ MapHas(trackedNPCs', id) =>
                              MapGet(trackedNPCs', id).alerted = timer.alerted]_vars

\* The alert 14 s before the spawn.
C14_Witness ==
    \E timer \in Timers :
        /\ outcome = "tick"
        /\ timer.spawnTimestamp = now + 14000
        /\ timer.alerted /\ ~timer.spawned
        /\ \E e \in EventsOf(log, "soon", timer.id) : e.remaining = 14

\* C15 (SpecCountdown), as claimed: every Timer that is destroyed, by the sweep
\* of updateTimers or by its remove button, has both its alerted and its
\* spawned flag set.
C15_DestroyedWithBothFlags ==
    \A e \in Events("removed") \cup Events("dismissed") : e.alerted /\ e.spawned

\* C15 (SpecCountdown), amended: each flag is set at most once in a Timer's
\* life (once set it stays set for as long as the Timer exists), and a Timer the
\* sweep removes has its spawned flag set; its alerted flag may never have been
\* set, and the remove button destroys a Timer whatever its flags are.
C15_FlagsAtMostOnce ==
    [][/\ \A id \in NPCIds :
             (MapHas(trackedNPCs, id) /\ MapHas(trackedNPCs', id)) =>
                 /\ MapGet(trackedNPCs, id).alerted => MapGet(trackedNPCs', id).alerted
                 /\ MapGet(trackedNPCs, id).spawned => MapGet(trackedNPCs', id).spawned
       /\ \A id \in NPCIds : \A e \in EventsOf(log', "removed", id) : e.spawned]_vars

\* The sweep removes a Timer that was never alerted: no tick fell between 15 s
\* and 0 s before its spawnTimestamp.
C15_Witness ==
    /\ outcome = "tick"
    /\ \E e \in Events("removed") : e.spawned /\ ~e.alerted /\ ~MapHas(trackedNPCs, e.id)

\* C16 (SpecCountdown), as claimed: a HealthRecord whose entity is alive
\* (health > 0) holds no position, level or entity reference cached at a death:
\* the record of a death is deleted when the entity is seen alive again.
C16_NoCacheOnLiveRecord ==
    \A r \in Records :
        r.hp > 0 => (~r.npcRef.defined /\ ~r.position.defined /\ r.level = 0)

\* C16 (SpecCountdown), amended: when an id's HealthRecord holds health 0 and
\* the id is seen with health > 0, the record is kept and only its health is
\* updated: the position, level and entity reference cached at the death stay
\* on it.
C16_RevivalKeepsRecord ==
    [][\A id \in NPCIds :
          (/\ MapHas(npcHealthMap, id) /\ MapGet(npcHealthMap, id).hp = 0
           /\ MapHas(npcHealthMap', id) /\ MapGet(npcHealthMap', id).hp > 0) =>
              MapGet(npcHealthMap', id) =
                  [MapGet(npcHealthMap, id) EXCEPT !.hp = MapGet(npcHealthMap', id).hp]]_vars

\* An entity that died is alive again and its record still holds the cache.
C16_Witness ==
    /\ outcome = "tick"
    /\ \E r \in Records : r.hp > 0 /\ r.npcRef.defined /\ r.position.defined /\ r.level # 0

\* A tick (run, skipped or aborted) that did not enumerate id.
TickWithout(id) ==
    /\ outcome' \in {"tick", "skipped", "TypeError"}
    /\ ~(registry' = "up" /\ id \in snapshot')

\* A tick without id leaves the HealthRecord of id, whose health is not 0, as
\* it was and creates no Timer for id.
AbsentLeavesRecord(id) ==
    TickWithout(id) =>
        /\ MapHas(npcHealthMap', id)
        /\ MapGet(npcHealthMap', id) = MapGet(npcHealthMap, id)
        /\ Count(log', "created", id) = 0
        /\ MapHas(trackedNPCs', id) => MapHas(trackedNPCs, id)

\* C17 (SpecRestart), as claimed: a tick that does not enumerate an id whose
\* HealthRecord holds a nonzero health leaves the record unchanged and creates
\* no Timer for it, and only stop() removes such a record.
C17_OnlyStopClears ==
    [][\A id \in NPCIds :
          (MapHas(npcHealthMap, id) /\ MapGet(npcHealthMap, id).hp # 0) =>
              /\ AbsentLeavesRecord(id)
              /\ ~MapHas(npcHealthMap', id) => outcome' = "stop"]_vars

\* What the code does keep of C17 (SpecRestart): the tick part as claimed, and
\* the record is removed only by stop() or by a run of setupNPCTracking that
\* finds the EntityManager (in start() or in the retry callback), which
\* replaces the map.
C17_AbsentAliveRecordStays ==
    [][\A id \in NPCIds :
          (MapHas(npcHealthMap, id) /\ MapGet(npcHealthMap, id).hp # 0) =>
              /\ AbsentLeavesRecord(id)
              /\ ~MapHas(npcHealthMap', id) => outcome' \in {"stop", "start", "retry"}]_vars

\* A tick read the registry, did not find the id, and its record with health
\* 10 is still there.
C17_Witness ==
    /\ outcome = "tick"
    /\ registry = "up"
    /\ \E r \in Records : r.hp = 10 /\ r.id \notin snapshot /\ ~MapHas(trackedNPCs, r.id)

\* C18 (Spec): after a tick, no id whose despawn the tick confirmed (the id
\* was not enumerated and its recorded health was 0) has a HealthRecord,
\* however the confirmation ended.
C18_ConfirmedRecordDeleted ==
    \A type \in {"created", "rejected", "tracked", "threw"} :
        \A e \in Events(type) : ~MapHas(npcHealthMap, e.id)

\* What the code does keep of C18 (Spec): the record is gone in the three cases
\* the claim names (Timer created, filter rejected, id already tracked).
C18_ThreeCasesDelete ==
    \A type \in {"created", "rejected", "tracked"} :
        \A e \in Events(type) : ~MapHas(npcHealthMap, e.id)

\* C19 (Spec): a Timer created after a detected death holds the map level the
\* entity had at the death and, to the nearest unit, its position.
C19_TimerHoldsDeathPlace ==
    \A e \in Events("created") :
        e.filtered =>
            LET timer == MapGet(trackedNPCs, e.id)
                entity == Worlds[host][e.id]
            IN  /\ timer.level = entity.currentMapLevel
                /\ 2 * timer.position.x - entity.currentGamePosition.x \in {-1, 0, 1}
                /\ 2 * timer.position.y - entity.currentGamePosition.z \in {-1, 0, 1}

\* What the code does keep of C19 (Spec): the claim for an entity on a map
\* level other than 0 and with nonzero coordinates.
C19_NonzeroPlaceKept ==
    \A e \in Events("created") :
        LET timer == MapGet(trackedNPCs, e.id)
            entity == Worlds[host][e.id]
        IN  (/\ e.filtered
             /\ entity.currentMapLevel # 0
             /\ entity.currentGamePosition.x # 0
             /\ entity.currentGamePosition.z # 0) =>
                /\ timer.level = entity.currentMapLevel
                /\ 2 * timer.position.x - entity.currentGamePosition.x \in {-1, 0, 1}
                /\ 2 * timer.position.y - entity.currentGamePosition.z \in {-1, 0, 1}

\* The plugin has no container and both maps are empty.
Stopped(container, timers, records) ==
    ~container /\ timers = << >> /\ records = << >>

\* C20 (SpecLifecycle): stop() leaves the plugin without a container and with
\* trackedNPCs and npcHealthMap empty, and from such a state every step other
\* than start() (a tick with any registry and clock value, the setup retry, a
\* settings change) leaves both maps empty.
C20_EmptyAfterStop ==
    [][/\ outcome' = "stop" => Stopped(timerContainer', trackedNPCs', npcHealthMap')
       /\ (Stopped(timerContainer, trackedNPCs, npcHealthMap) /\ outcome' # "start") =>
             Stopped(timerContainer', trackedNPCs', npcHealthMap')]_vars

\* stop() has just cleared a Timer and a HealthRecord.
C20_Witness ==
    /\ outcome = "stop"
    /\ \E e \in Events("cleared") : e.timers >= 1 /\ e.records >= 1
    /\ Stopped(timerContainer, trackedNPCs, npcHealthMap)
    /\ entityManager

\* C21 (SpecRestart): stop() leaves no retry of setupNPCTracking pending, at
\* most one retry is pending at a time, and a retry that runs when the tracker
\* is initialised (this.entityManager is set) leaves npcHealthMap as it is.
C21_NoDeferredWork ==
    [][/\ outcome' = "stop" => pendingRetries' = 0
       /\ pendingRetries' <= 1
       /\ (outcome' = "retry" /\ entityManager) => npcHealthMap' = npcHealthMap]_vars

\* C21 (SpecRestart), its last part alone: a retry that runs when the tracker
\* is initialised leaves npcHealthMap as it is.
C21_RetryKeepsRecords ==
    [][(outcome' = "retry" /\ entityManager) => npcHealthMap' = npcHealthMap]_vars

\* The clock values and the _npcs tables (readable or not) of a tick that can
\* follow the current state.
NextClocks == { now + d : d \in { e \in CountdownDeltas \cup Deltas : now + e <= MaxNow } }

NextTables == { [available |-> TRUE, npcs |-> npcs] : npcs \in Tables[host] }
              \cup { [available |-> FALSE, npcs |-> << >>] }

Shown(events) == SelectSeq(events, LAMBDA e : e.type \in {"soon", "spawned"})

\* C22 (SpecCountdown): whenever a tick runs (the plugin is enabled and has its
\* container), running GameLoop_update a second time with the same snapshot
\* and the same clock value leaves the HealthRecord map and the Timer
\* registry, flags included, as the first run left them, and the second run
\* shows no notification.
C22_TickIdempotent ==
    (enabled /\ timerContainer) =>
        \A t \in NextClocks, table \in NextTables :
            LET once == TickResult(table.available, table.npcs, t)
                twice == TickAgain(once, table.available, table.npcs, t)
            IN  /\ twice.health = once.health
                /\ twice.tracked = once.tracked
                /\ Shown(twice.log) = << >>

\* A state from which one tick shows a notification and changes both maps
\* while a Timer stays registered.
C22_Witness ==
    /\ enabled /\ timerContainer
    /\ \E t \in NextClocks, table \in NextTables :
          LET once == TickResult(table.available, table.npcs, t)
          IN  /\ Shown(once.log) # << >>
              /\ once.health # npcHealthMap
              /\ once.tracked # trackedNPCs
              /\ once.tracked # << >>

\* Where key id stands in a Map.
MapIndex(m, id) == CHOOSE i \in 1..Len(m) : m[i].id = id

\* C23 (SpecRender): while the timer list exists, its entries are exactly the
\* Timers of the registry, each once, in ascending order of spawnTimestamp,
\* and Timers with equal spawnTimestamp stand in registry insertion order.
C23_RenderedSortedStable ==
    timerContainer =>
        /\ Len(rendered) = Len(trackedNPCs)
        /\ \A timer \in Timers :
              Cardinality({ i \in 1..Len(rendered) : rendered[i] = timer.id }) = 1
        /\ \A i, j \in 1..Len(rendered) :
              (i < j /\ MapHas(trackedNPCs, rendered[i]) /\ MapHas(trackedNPCs, rendered[j])) =>
                  LET a == MapGet(trackedNPCs, rendered[i])
                      b == MapGet(trackedNPCs, rendered[j])
                  IN  /\ a.spawnTimestamp <= b.spawnTimestamp
                      /\ a.spawnTimestamp = b.spawnTimestamp =>
                            MapIndex(trackedNPCs, a.id) < MapIndex(trackedNPCs, b.id)

\* Three Timers on screen: the one registered second is shown first, and the
\* other two have the same spawnTimestamp.
C23_Witness ==
    /\ timerContainer
    /\ Len(rendered) = 3
    /\ Len(trackedNPCs) = 3
    /\ rendered[1] = trackedNPCs[2].id
    /\ MapGet(trackedNPCs, rendered[2]).spawnTimestamp
           = MapGet(trackedNPCs, rendered[3]).spawnTimestamp

\* The health the claim expects for a hitpoints object.
ExpectedHealth(hitpoints) ==
    IF hitpoints.currentLevel # 0 THEN hitpoints.currentLevel
    ELSE IF hitpoints.level # 0 THEN hitpoints.level
    ELSE 0

BothLevelsZero(hitpoints) == hitpoints.currentLevel = 0 /\ hitpoints.level = 0

\* Whether onNPCDeath has cached the death of a record.
DeathCached(map, id) == MapHas(map, id) /\ MapGet(map, id).npcRef.defined

Confirmations(events, id) ==
    { i \in 1..Len(events) : events[i].id = id
                             /\ events[i].type \in {"created", "rejected", "tracked", "threw"} }

TimerOnStep(before, after, id) == IF MapHas(before, id) THEN MapGet(before, id) ELSE MapGet(after, id)

\* C29 (SpecCountdown): the clock never decreases; for every Timer, a handler
\* that shows its "spawned" notification shows no "spawning soon" notification
\* for it, no "spawning soon" notification is shown for a Timer whose
\* "spawned" notification was shown before, and the "spawned" notification is
\* shown only at a clock value now > spawnTimestamp - 1000.
C29_NoAlertAfterSpawn ==
    [][/\ now' >= now
       /\ \A id \in NPCIds :
             /\ Count(log', "spawned", id) > 0 =>
                   /\ Count(log', "soon", id) = 0
                   /\ MapHas(trackedNPCs, id) \/ MapHas(trackedNPCs', id)
                   /\ now' > TimerOnStep(trackedNPCs, trackedNPCs', id).spawnTimestamp - 1000
             /\ (emitted[id].spawned > 0 /\ Count(log', "created", id) = 0) =>
                   Count(log', "soon", id) = 0]_vars

\* The "spawned" notification shown within the second before spawnTimestamp
\* or the half second after it, for a Timer alerted on an earlier tick: the
\* Timer has both flags and one notification of each kind.
C29_Witness ==
    \E timer \in Timers :
        /\ outcome = "tick"
        /\ Count(log, "spawned", timer.id) = 1
        /\ timer.alerted /\ timer.spawned
        /\ emitted[timer.id] = [soon |-> 1, spawned |-> 1]
        /\ now > timer.spawnTimestamp - 1000
        /\ now <= timer.spawnTimestamp + 500

\* C30 (SpecRender): a GameLoop_update taken while the plugin is disabled or
\* has no timer container leaves npcHealthMap, trackedNPCs (every Timer flag
\* with it) and the timer list as they were and shows and logs nothing,
\* whatever the clock value.
C30_SkippedTickChangesNothing ==
    [][(outcome' \in {"tick", "skipped", "TypeError"} /\ (~enabled \/ ~timerContainer)) =>
          /\ npcHealthMap' = npcHealthMap
          /\ trackedNPCs' = trackedNPCs
          /\ rendered' = rendered
          /\ emitted' = emitted
          /\ log' = << >>]_vars

\* A tick skipped for want of a container, a minute or more after the
\* spawnTimestamp of a Timer that is still neither alerted nor spawned.
C30_Witness ==
    /\ outcome = "skipped"
    /\ enabled /\ ~timerContainer
    /\ \E timer \in Timers :
          /\ now - timer.spawnTimestamp >= 60000
          /\ ~timer.alerted /\ ~timer.spawned

\* A tick skipped because the plugin is disabled, at the spawnTimestamp of a
\* Timer not yet spawned, with a HealthRecord of health 0 whose entity is gone.
C30_DisabledWitness ==
    /\ outcome = "skipped"
    /\ ~enabled /\ timerContainer
    /\ \E timer \in Timers : now >= timer.spawnTimestamp /\ ~timer.spawned
    /\ \E record \in Records : record.hp = 0

\* The ticks of the bot that can follow the current state.
BotClocks == { now + d : d \in BotDeltas \cup {0} }

NextTickInputs == UNION { TickInputs(t) : t \in BotClocks }

\* The tick is processed: enabled, not throttled, player present and not busy.
Processed(in) ==
    /\ botEnabled
    /\ in.now - lastActionAt >= 650
    /\ in.player.present
    /\ in.player.currentState \notin
          {"WoodcuttingState", "TreeShakingState", "MovingState", "MovingTowardTargetState"}

\* C24 (SpecTreeCutter): whatever a tick of the bot finds, if the plugin is
\* disabled, or fewer than 650 ms have passed since lastActionAt, or there is
\* no player, or the player is woodcutting, shaking a tree, moving or moving
\* toward a target, the tick makes no click action and leaves state and
\* lastActionAt as they are; every tick makes at most one click action.
C24_QuietOrOneClick ==
    /\ Len(clicks) <= 1
    /\ \A in \in NextTickInputs :
          LET after == TreeCutterBot_update(Bot, in)
          IN  /\ Len(after.clicks) <= 1
              /\ ~Processed(in) =>
                    /\ after.clicks = << >>
                    /\ after.state = state
                    /\ after.lastActionAt = lastActionAt

\* The bot has just clicked a tree: a tick 300 ms later, with a player who is
\* idle again, is throttled, and a tick 650 ms later clicks once more.
C24_Witness ==
    /\ outcome = "botTick"
    /\ Len(clicks) = 1 /\ clicks[1].purpose = "tree"
    /\ now = lastActionAt /\ now > 0
    /\ \E in \in TickInputs(now + 300) :
          /\ in.player.present /\ in.player.currentState = "IdleState"
          /\ ~Processed(in)
    /\ \E in \in TickInputs(now + 650) :
          Processed(in) /\ Len(TreeCutterBot_update(Bot, in).clicks) = 1

\* Every slot of the inventory holds an item.
InventoryFull(in) ==
    /\ in.player.inventory.present
    /\ Len(in.player.inventory.items) > 0
    /\ \A i \in 1..Len(in.player.inventory.items) : in.player.inventory.items[i].item

\* C25 (SpecTreeCutter): whatever a processed tick of the bot finds, if the
\* inventory is full then state is 'banking' when GameLoop_update returns.
C25_FullMeansBanking ==
    \A in \in NextTickInputs :
        (Processed(in) /\ InventoryFull(in)) =>
            TreeCutterBot_update(Bot, in).state = "banking"

\* C25 (SpecTreeCutter), with the bank menu closed or logs to deposit: a
\* processed tick that finds the inventory full returns with state 'banking'
\* if the bank menu is not visible or a slot holds an item that the log filter
\* matches.
C25_FullMeansBankingUntilNoLogs ==
    \A in \in NextTickInputs :
        (/\ Processed(in) /\ InventoryFull(in)
         /\ \/ ~in.bankVisible
            \/ \E i \in 1..Len(in.player.inventory.items) :
                  /\ trim(toLowerCase(logNameIncludes)) # << >>
                  /\ includes(toLowerCase(in.player.inventory.items[i].name),
                              trim(toLowerCase(logNameIncludes)))) =>
            TreeCutterBot_update(Bot, in).state = "banking"

\* Some slot holds an item whose name contains the log filter (names and
\* filter compared in lower case, the filter trimmed).
HoldsLogs(in) ==
    \E i \in 1..Len(in.player.inventory.items) :
        /\ in.player.inventory.items[i].item
        /\ includes(toLowerCase(in.player.inventory.items[i].name),
                    trim(toLowerCase(logNameIncludes)))

TreeClicked(events) == \E i \in 1..Len(events) : events[i].purpose = "tree"

\* How a tick may change state, given when it may leave 'banking'.
TickTransitions(in, mayLeaveBanking) ==
    LET after == TreeCutterBot_update(Bot, in)
    IN  /\ after.state \in {"cutting", "banking"}
        /\ (state = "cutting" /\ after.state = "banking") =>
              Processed(in) /\ InventoryFull(in)
        /\ (state = "banking" /\ after.state = "cutting") =>
              Processed(in) /\ in.bankVisible /\ mayLeaveBanking
        /\ TreeClicked(after.clicks) =>
              state # "banking" /\ after.state # "banking" /\ ~in.bankVisible

\* Outside ticks, state changes only by start() when enabled and by stop().
HandlerTransitions ==
    (outcome' # "botTick" /\ state' # state) =>
        /\ state' = "cutting"
        /\ (outcome' = "botStart" /\ botEnabled) \/ outcome' = "botStop"

\* C26 (SpecTreeCutter), as claimed: state is 'cutting' or 'banking'; a tick
\* takes it from 'cutting' to 'banking' only if it is processed and every
\* inventory slot is non-null, and from 'banking' to 'cutting' only if it is
\* processed, the bank menu is visible and no slot holds an item whose name
\* contains the log filter; otherwise only start() (when enabled) and stop()
\* change it; no tree is clicked while state is 'banking' or the bank menu is
\* visible.
C26_TransitionsAsClaimed ==
    /\ [](/\ state \in {"cutting", "banking"}
          /\ \A in \in NextTickInputs : TickTransitions(in, ~HoldsLogs(in)))
    /\ [][HandlerTransitions]_vars

\* C26 (SpecTreeCutter), amended: as above, but a tick takes state from
\* 'banking' to 'cutting' only if it is processed, the bank menu is visible and
\* either no slot holds an item whose name contains the log filter or the log
\* filter is empty once trimmed.
C26_TransitionsOrEmptyFilter ==
    /\ [](/\ state \in {"cutting", "banking"}
          /\ \A in \in NextTickInputs :
                TickTransitions(in, ~HoldsLogs(in) \/ trim(logNameIncludes) = << >>))
    /\ [][HandlerTransitions]_vars

\* The bot is banking after a tick that clicked the slot of its logs with the
\* bank menu open, and a tick that finds the menu open and no logs left takes
\* it back to cutting.
C26_Witness ==
    /\ outcome = "botTick"
    /\ state = "banking"
    /\ Len(clicks) = 1 /\ clicks[1].kind = "slot"
    /\ \E in \in NextTickInputs :
          /\ Processed(in) /\ in.bankVisible /\ ~HoldsLogs(in)
          /\ TreeCutterBot_update(Bot, in).state = "cutting"

\* The places of the entities that qualify for a search: the name contains
\* the include filter (in lower case, the filter trimmed) and none of the
\* non-empty exclude terms, the position is readable and the XZ distance to
\* the player is at most 30.
Qualifying(in) ==
    IF ~in.worldEntities.present \/ ~in.playerPos.readable THEN {}
    ELSE { i \in 1..Len(in.worldEntities.entities) :
             LET entity == in.worldEntities.entities[i]
             IN  /\ entity.named
                 /\ includes(toLowerCase(entity.name), trim(toLowerCase(in.nameIncludes)))
                 /\ \A k \in 1..Len(in.nameExcludes) :
                       in.nameExcludes[k] # << >> =>
                           ~includes(toLowerCase(entity.name), toLowerCase(in.nameExcludes[k]))
                 /\ entity.readable
                 /\ (entity.x - in.playerPos.x) * (entity.x - in.playerPos.x)
                        + (entity.z - in.playerPos.z) * (entity.z - in.playerPos.z) <= 900 }

SquaredDistance(in, i) ==
    (in.worldEntities.entities[i].x - in.playerPos.x)
        * (in.worldEntities.entities[i].x - in.playerPos.x)
    + (in.worldEntities.entities[i].z - in.playerPos.z)
        * (in.worldEntities.entities[i].z - in.playerPos.z)

\* C27 (SpecSearch): findNearestWorldEntityByName returns null when no entity
\* qualifies; otherwise it returns a qualifying entity, none of the other
\* qualifying entities is strictly closer to the player, and of those at its
\* distance it is the first in WorldEntities.
C27_NearestQualifying ==
    outcome = "search" =>
        IF Qualifying(searchIn) = {} THEN searchOut = 0
        ELSE /\ searchOut \in Qualifying(searchIn)
             /\ \A j \in Qualifying(searchIn) :
                   /\ SquaredDistance(searchIn, j) >= SquaredDistance(searchIn, searchOut)
                   /\ SquaredDistance(searchIn, j) = SquaredDistance(searchIn, searchOut)
                         => searchOut <= j

\* The search returned the second of three qualifying entities: the first is
\* farther away and the third as far.
C27_Witness ==
    /\ outcome = "search"
    /\ searchOut = 2
    /\ Qualifying(searchIn) = {1, 2, 3}
    /\ SquaredDistance(searchIn, 1) > SquaredDistance(searchIn, 2)
    /\ SquaredDistance(searchIn, 3) = SquaredDistance(searchIn, 2)
    /\ searchIn.nameIncludes = <<"T","r","e","e"," ">>

====
